---- MODULE Spec2Model ----
(***************************************************************************)
(* A state-machine model of the semantic cache of harshith-eth/scira:      *)
(* CacheManager (lib/cache/core/cache-manager.ts), the strategy presets    *)
(* and the SemanticMatcher (lib/cache/core/cache-strategies.ts).           *)
(*                                                                         *)
(* Conventions.  Strings of the program are sequences of one-character     *)
(* strings, so that normalizeKey can be computed.  A store key             *)
(* "scira:cache:<name>:<hash>" is the sequence of its ':'-separated        *)
(* segments.  Numbers that are fractions in the program are kept as        *)
(* percentages (0.85 is 85).  An absent optional argument is the empty     *)
(* sequence << >>, a present one the one-element sequence <<x>>.  Time is  *)
(* in milliseconds, TTLs are in seconds, as in the program.                *)
(***************************************************************************)
EXTENDS Integers, Sequences, FiniteSets, TLC

VARIABLES
  clock,        \* Date.now(), in ms
  ticks,        \* number of clock advances so far (bounded)
  nops,         \* number of operations issued so far (bounded)
  store,        \* Redis: cache records, key -> [entry, expireAt]
  idxKeys,      \* Redis set  scira_cache_embeddings:keys
  idxData,      \* Redis hashes scira_cache_embeddings:<hash>
  idxVectors,   \* Redis hashes scira_cache_embeddings:vectors:<hash>
  stats,        \* CacheManager.stats
  batchRequests,\* CacheManager.batchRequests
  calls,        \* get calls in flight: slot -> call record
  batches,      \* getBatch calls in flight: slot -> batch record
  written,      \* history: key -> entry of the last set, until a delete or clear call
  rejected,     \* history: keys whose last set the predicate turned away
  last,         \* history: the operation that completed in the last step
  config,       \* CacheManager.config: [defaultStrategy]
  eventListeners, \* CacheManager.eventListeners: event type -> listeners in order
  delivered     \* history: what emitEvent did during the last operation

vars == <<clock, ticks, nops, store, idxKeys, idxData, idxVectors, stats,
          batchRequests, calls, batches, written, rejected, last,
          config, eventListeners, delivered>>

(***************************************************************************)
(* Bounds of the model.                                                    *)
(***************************************************************************)
MaxOps == 3
MaxStrategyOps == 4
MaxTicks == 2
MaxCalls == 2
MaxBatches == 2
MaxListeners == 2
MaxListenerOps == 2
MaxRegistryOps == 3
MaxPatternOps == 3
MaxNormalizeOps == 3
MaxOptionOps == 3
MaxSearchOps == 4
MaxIsolationOps == 3
MaxDispatchOps == 2
MaxWrapperOps == 3
TickMs == 3600000

(***************************************************************************)
(* Program constants.                                                      *)
(***************************************************************************)
MsPerSecond == 1000
FallbackThreshold == 85
KnnLimit == 10
SemanticDefaultTTL == 3600
SemanticThreshold == 85
SemanticMinSize == 100
SemanticMaxSize == 500000
ExactDefaultTTL == 1800
ExactMaxSize == 100000
AcademicDefaultTTL == 7200
AcademicThreshold == 90
WeatherDefaultTTL == 1800

DefaultStrategy == "semantic"

(***************************************************************************)
(* Values of the program that are not numbers.                             *)
(***************************************************************************)
Null == "null"
Undefined == "undefined"
Absent == << >>
Some(x) == <<x>>

\* JavaScript's  a || b  on an optional number: absent and 0 are falsy.
Falsy(o) == o = Absent \/ o[1] = 0
OrElse(o, d) == IF Falsy(o) THEN d ELSE o[1]

\* A const of the program: the one value of a set of one, computed once.
TheOne(S) == CHOOSE x \in S : TRUE

NullEntry == [kind |-> "null"]
\* The object literal {} : an entry none of whose fields is defined.
EmptyObject == [kind |-> "empty"]

(***************************************************************************)
(* Inputs.                                                                 *)
(***************************************************************************)
RawKeys == { <<"Q">>, <<" ", "q">>, <<"r">> }
Values == { "tiny", "v1" }
TtlOptions == { Absent }
StrategyOptions == { Absent, Some("exact") }
SemanticOptions == { Absent }
ThresholdOptions == { Absent }
TickSteps == { TickMs }
MemorySamples == { 2048 }

\* JSON.stringify(value).length of the values of the model.
JsonLength(value) == IF value = "tiny" THEN 50 ELSE 200

(***************************************************************************)
(* normalizeKey: key.toLowerCase().trim().replace(/\s+/g, ' ')             *)
(***************************************************************************)
UpperLetters ==
  <<"A", "B", "C", "D", "E", "F", "G", "H", "I", "J", "K", "L", "M",
     "N", "O", "P", "Q", "R", "S", "T", "U", "V", "W", "X", "Y", "Z">>
LowerLetters ==
  <<"a", "b", "c", "d", "e", "f", "g", "h", "i", "j", "k", "l", "m",
     "n", "o", "p", "q", "r", "s", "t", "u", "v", "w", "x", "y", "z">>

LowerChar(c) ==
  IF \E i \in 1..Len(UpperLetters) : UpperLetters[i] = c
  THEN LowerLetters[CHOOSE i \in 1..Len(UpperLetters) : UpperLetters[i] = c]
  ELSE c

IsSpace(c) == c \in { " ", "\t", "\n" }

toLowerCase(s) == [i \in 1..Len(s) |-> LowerChar(s[i])]

RECURSIVE trimStart(_)
trimStart(s) ==
  IF s # << >> /\ IsSpace(Head(s)) THEN trimStart(Tail(s)) ELSE s

RECURSIVE trimEnd(_)
trimEnd(s) ==
  IF s # << >> /\ IsSpace(s[Len(s)]) THEN trimEnd(SubSeq(s, 1, Len(s) - 1)) ELSE s

trim(s) == trimEnd(trimStart(s))

\* replace(/\s+/g, ' '): every maximal run of whitespace becomes one space.
RECURSIVE collapseWhitespace(_)
collapseWhitespace(s) ==
  IF s = << >> THEN << >>
  ELSE IF IsSpace(Head(s))
       THEN <<" ">> \o collapseWhitespace(trimStart(s))
       ELSE <<Head(s)>> \o collapseWhitespace(Tail(s))

normalizeKey(key) == collapseWhitespace(trim(toLowerCase(key)))

(***************************************************************************)
(* The strategy registry: the presets of getDefaultStrategies that the     *)
(* model uses.  Of the four, weather has a customKeyGenerator.             *)
(***************************************************************************)
StrategyNames == { "semantic", "exact", "academic", "weather" }

\* word is at position i of s, whatever the case of the letters (the i flag).
WordAt(s, i, word) ==
  /\ i + Len(word) - 1 <= Len(s)
  /\ \A k \in 1..Len(word) : LowerChar(s[i + k - 1]) = word[k]

\* The length of the run of whitespace, and of characters other than a
\* comma, that starts at position i of s.
RECURSIVE SpacesAt(_, _)
SpacesAt(s, i) == IF i <= Len(s) /\ IsSpace(s[i]) THEN 1 + SpacesAt(s, i + 1) ELSE 0

RECURSIVE NonCommasAt(_, _)
NonCommasAt(s, i) == IF i <= Len(s) /\ s[i] # "," THEN 1 + NonCommasAt(s, i + 1) ELSE 0

WeatherWord == <<"w", "e", "a", "t", "h", "e", "r">>
WeatherPrepositions == { <<"i", "n">>, <<"f", "o", "r">>, <<"a", "t">> }

\* The ways /weather\s+(?:in|for|at)?\s*([^,]+)/i matches in s: from
\* position i, a characters of \s+, the preposition g or none, b characters
\* of \s*, and a capture of len characters from position at on.
WeatherParses(s) ==
  LET try(i, a, g, b) ==
        [ i |-> i, a |-> a, g |-> g, b |-> b,
          at |-> i + Len(WeatherWord) + a + Len(g) + b,
          len |-> NonCommasAt(s, i + Len(WeatherWord) + a + Len(g) + b) ]
      all == UNION { UNION { UNION { { try(i, a, g, b) :
                                       b \in 0..SpacesAt(s, i + Len(WeatherWord) + a + Len(g)) } :
                                     g \in { w \in WeatherPrepositions \cup {<< >>} :
                                               WordAt(s, i + Len(WeatherWord) + a, w) } } :
                             a \in 1..SpacesAt(s, i + Len(WeatherWord)) } :
                     i \in { k \in 1..Len(s) : WordAt(s, k, WeatherWord) } }
  IN { x \in all : x.len > 0 }

\* The match the regular expression engine takes: the leftmost start, greedy
\* \s+, then the preposition if it can, then greedy \s*.
WeatherBetter(x, y) ==
  \/ x.i < y.i
  \/ x.i = y.i /\ x.a > y.a
  \/ x.i = y.i /\ x.a = y.a /\ x.g # << >> /\ y.g = << >>
  \/ x.i = y.i /\ x.a = y.a /\ x.g = y.g /\ x.b > y.b

\* The customKeyGenerator of weather (lines 56-60): 'weather:' and the
\* trimmed location of the first match, or the key itself without a match.
weatherKeyGenerator(key) ==
  TheOne({ IF taken = {} THEN key
           ELSE TheOne({ WeatherWord \o <<":">> \o
                           trim(SubSeq(key, locationMatch.at,
                                       locationMatch.at + locationMatch.len - 1)) :
                         locationMatch \in { CHOOSE x \in taken : TRUE } }) :
           taken \in { TheOne({ { x \in parses :
                                    \A y \in parses : x = y \/ WeatherBetter(x, y) } :
                                parses \in { WeatherParses(key) } }) } })

Strategies ==
  [ semantic |-> [ name |-> "semantic", type |-> "semantic",
                   defaultTTL |-> SemanticDefaultTTL,
                   semanticThreshold |-> Some(SemanticThreshold),
                   customKeyGenerator |-> FALSE,
                   hasShouldCache |-> TRUE, onHit |-> TRUE, onMiss |-> TRUE ],
    exact    |-> [ name |-> "exact", type |-> "exact",
                   defaultTTL |-> ExactDefaultTTL,
                   semanticThreshold |-> Absent,
                   customKeyGenerator |-> FALSE,
                   hasShouldCache |-> TRUE, onHit |-> FALSE, onMiss |-> FALSE ],
    academic |-> [ name |-> "academic", type |-> "semantic",
                   defaultTTL |-> AcademicDefaultTTL,
                   semanticThreshold |-> Some(AcademicThreshold),
                   customKeyGenerator |-> FALSE,
                   hasShouldCache |-> FALSE, onHit |-> FALSE, onMiss |-> FALSE ],
    weather  |-> [ name |-> "weather", type |-> "geo-temporal",
                   defaultTTL |-> WeatherDefaultTTL,
                   semanticThreshold |-> Absent,
                   customKeyGenerator |-> TRUE,
                   hasShouldCache |-> FALSE, onHit |-> FALSE, onMiss |-> FALSE ] ]

\* strategy.shouldCache(key, value) of the presets.
shouldCache(strategy, key, value) ==
  CASE strategy.name = "semantic" ->
         JsonLength(value) > SemanticMinSize /\ JsonLength(value) < SemanticMaxSize
    [] strategy.name = "exact" -> JsonLength(value) < ExactMaxSize
    [] OTHER -> TRUE

\* getStrategy: strategyName || this.config.defaultStrategy, then the registry.
StrategyNameOf(strategyOption) ==
  IF strategyOption = Absent THEN config.defaultStrategy ELSE strategyOption[1]

IsRegistered(name) == name \in StrategyNames

getStrategy(strategyOption) == Strategies[StrategyNameOf(strategyOption)]

\* ... which throws a CacheError of kind STRATEGY_ERROR for a name that is
\* not registered (lines 305-307): what the call is remembered by.
StrategyError == "STRATEGY_ERROR"
StrategyFailure(op, key, strategyOption) ==
  [ op |-> op, key |-> key, strategy |-> StrategyNameOf(strategyOption),
    error |-> StrategyError, trace |-> <<"throw:STRATEGY_ERROR">> ]

(***************************************************************************)
(* Fingerprints.                                                           *)
(***************************************************************************)
\* createHash('sha256').update(s).digest('hex'): injective on the keys of
\* the model; the digest is kept as the tagged text it was computed from.
Sha256(s) == <<"sha256">> \o s

\* The embedding provider: a fixed vector per text (dimension 2 here).
Embedding(text) ==
  CASE text = <<"q">> -> <<1, 0>>
    [] text = <<"r">> -> <<12, 5>>
    [] text = <<"s">> -> <<12, 5>>
    [] OTHER -> <<0, 1>>

\* generateFingerprint.  embOK is whether the embedding provider answers.
\* A fingerprint computed from the key as the caller wrote it.
generateFingerprintRaw(key, strategy, embOK) ==
  TheOne({ [ hash |-> <<"scira", "cache", strategy.name>> \o
                      (IF strategy.customKeyGenerator
                       THEN weatherKeyGenerator(normalizedKey)
                       ELSE Sha256(normalizedKey)),
             embedding |-> IF strategy.type = "semantic" /\ embOK
                           THEN Some(Embedding(normalizedKey)) ELSE Absent,
             originalQuery |-> key,
             normalizedQuery |-> normalizedKey,
             queryType |-> strategy.type ] :
           normalizedKey \in { key } })

generateFingerprint(key, strategy, embOK) ==
  TheOne({ [ hash |-> <<"scira", "cache", strategy.name>> \o
                      (IF strategy.customKeyGenerator
                       THEN weatherKeyGenerator(normalizedKey)
                       ELSE Sha256(normalizedKey)),
             embedding |-> IF strategy.type = "semantic" /\ embOK
                           THEN Some(Embedding(normalizedKey)) ELSE Absent,
             originalQuery |-> key,
             normalizedQuery |-> normalizedKey,
             queryType |-> strategy.type ] :
           normalizedKey \in { normalizeKey(key) } })

(***************************************************************************)
(* cosineSimilarity, in percent.  The vectors of the model have integral   *)
(* norms, so the square roots are exact.                                   *)
(***************************************************************************)
RECURSIVE SumOver(_, _, _)
SumOver(a, b, i) == IF i = 0 THEN 0 ELSE a[i] * b[i] + SumOver(a, b, i - 1)

Sqrt(n) == CHOOSE r \in 0..n : r * r <= n /\ (r + 1) * (r + 1) > n

cosineSimilarity(a, b) ==
  LET dotProduct == SumOver(a, b, Len(a))
      magnitude == Sqrt(SumOver(a, a, Len(a))) * Sqrt(SumOver(b, b, Len(b)))
  IN IF magnitude = 0 THEN 0 ELSE (dotProduct * 100) \div magnitude

(***************************************************************************)
(* The store (Redis).                                                      *)
(***************************************************************************)
\* A record written with an undefined TTL has no expiry the model knows.
NoExpiry == -1

\* getEntry: redis.get(key), then JSON.parse, or null.
getEntry(key) == IF key \in DOMAIN store THEN store[key].entry ELSE NullEntry

\* setEntry: redis.setex(key, ttl, JSON.stringify(entry)), on a store value.
setEntry(st, key, entry, expireAt) ==
  (key :> [entry |-> entry, expireAt |-> expireAt]) @@ st

\* redis.del(key) on a function with a finite domain.
Without(f, key) == [k \in (DOMAIN f) \ {key} |-> f[k]]

Empty == [k \in {} |-> NullEntry]

\* isExpired: Date.now() > entry.timestamp + entry.ttl * 1000.  For {} the
\* right-hand side is NaN and the comparison is false.
isExpired(entry, now) ==
  entry.kind = "entry" /\ now > entry.timestamp + entry.ttl * MsPerSecond

(***************************************************************************)
(* SemanticMatcher.                                                        *)
(***************************************************************************)
\* indexEntry's indexData.
IndexData(fingerprint, entry) ==
  [ hash |-> fingerprint.hash,
    embedding |-> fingerprint.embedding[1],
    originalQuery |-> fingerprint.originalQuery,
    timestamp |-> entry.timestamp,
    ttl |-> entry.ttl,
    strategy |-> entry.strategy ]

\* All orders of a finite set in which similarity does not increase.
SortedBySimilarity(S) ==
  { s \in [1..Cardinality(S) -> S] :
      /\ \A i, j \in 1..Cardinality(S) : i # j => s[i] # s[j]
      /\ \A i, j \in 1..Cardinality(S) : i < j => s[i].similarity >= s[j].similarity }

\* performManualSimilaritySearch: the record it reads for an indexed key.
ManualCacheKey(metadata, key) == <<"scira", "cache", metadata.strategy>> \o key

\* cosineSimilarity reads a.length: it throws on an undefined query vector,
\* which the scan's catch turns into a SemanticCacheError.
ManualSearchThrows(queryEmbedding) ==
  /\ queryEmbedding = Absent
  /\ \E key \in idxKeys : key \in DOMAIN idxVectors

performManualSimilaritySearch(queryEmbedding, threshold) ==
  LET hits == { key \in idxKeys :
                  /\ key \in DOMAIN idxVectors
                  /\ cosineSimilarity(queryEmbedding[1], idxVectors[key].vector) >= threshold
                  /\ getEntry(ManualCacheKey(idxVectors[key].metadata, key)) # NullEntry }
      results == { [ key |-> key,
                     similarity |-> cosineSimilarity(queryEmbedding[1], idxVectors[key].vector),
                     distance |-> 100 - cosineSimilarity(queryEmbedding[1], idxVectors[key].vector),
                     entry |-> getEntry(ManualCacheKey(idxVectors[key].metadata, key)) ]
                   : key \in hits }
  IN SortedBySimilarity(results)

\* A search that lists the nearest records in any order.
NativeHitsUnsorted(queryEmbedding) ==
  LET docs == DOMAIN idxVectors
      dist(d) == 100 - cosineSimilarity(queryEmbedding[1], idxVectors[d].vector)
      n == IF Cardinality(docs) < KnnLimit THEN Cardinality(docs) ELSE KnnLimit
      nearest == { T \in SUBSET docs :
                     /\ Cardinality(T) = n
                     /\ \A x \in T, y \in docs \ T : dist(x) <= dist(y) }
  IN UNION { { s \in [1..n -> T] : \A i, j \in 1..n : i # j => s[i] # s[j] }
             : T \in nearest }

\* FT.SEARCH ... KNN 10 @vector ... SORTBY distance LIMIT 0 10: the nearest
\* KnnLimit vector records, nearest first, each with its cosine distance.
NativeHits(queryEmbedding) ==
  LET docs == DOMAIN idxVectors
      dist(d) == 100 - cosineSimilarity(queryEmbedding[1], idxVectors[d].vector)
      n == IF Cardinality(docs) < KnnLimit THEN Cardinality(docs) ELSE KnnLimit
      nearest == { T \in SUBSET docs :
                     /\ Cardinality(T) = n
                     /\ \A x \in T, y \in docs \ T : dist(x) <= dist(y) }
  IN UNION { { s \in [1..n -> T] :
                 /\ \A i, j \in 1..n : i # j => s[i] # s[j]
                 /\ \A i, j \in 1..n : i < j => dist(s[i]) <= dist(s[j]) }
             : T \in nearest }

\* parseVectorSearchResults on one reply: the entry of a result is {}.
parseVectorSearchResults(queryEmbedding, reply, threshold) ==
  LET dist(d) == 100 - cosineSimilarity(queryEmbedding[1], idxVectors[d].vector)
      keep == SelectSeq(reply, LAMBDA d : 100 - dist(d) >= threshold)
  IN [ i \in 1..Len(keep) |->
         [ key |-> idxVectors[keep[i]].metadata.hash,
           similarity |-> 100 - dist(keep[i]),
           distance |-> dist(keep[i]),
           entry |-> EmptyObject ] ]

\* performVectorSearch: fails when the store has no vector search, and on
\* an undefined query vector (an empty blob is no vector of the index).
NativeSearchFails(queryEmbedding, nativeOK) ==
  ~nativeOK \/ queryEmbedding = Absent

\* A vector search whose reply is in no particular order.
performVectorSearchUnordered(queryEmbedding, threshold) ==
  { parseVectorSearchResults(queryEmbedding, reply, threshold) :
      reply \in NativeHitsUnsorted(queryEmbedding) }

performVectorSearch(queryEmbedding, threshold) ==
  { parseVectorSearchResults(queryEmbedding, reply, threshold) :
      reply \in NativeHits(queryEmbedding) }

\* A findSimilarQueries that lets the failure of the vector search out.
findSimilarNoFallback(queryEmbedding, threshold, nativeOK) ==
  IF ~NativeSearchFails(queryEmbedding, nativeOK)
  THEN { [ok |-> TRUE, path |-> "native", results |-> r] :
           r \in performVectorSearch(queryEmbedding, threshold) }
  ELSE { [ok |-> FALSE, path |-> "native", results |-> << >>] }

\* findSimilarQueries: every outcome the call can have.
findSimilarQueries(queryEmbedding, threshold, nativeOK) ==
  IF ~NativeSearchFails(queryEmbedding, nativeOK)
  THEN { [ok |-> TRUE, path |-> "native", results |-> r] :
           r \in performVectorSearch(queryEmbedding, threshold) }
  ELSE IF ManualSearchThrows(queryEmbedding)
       THEN { [ok |-> FALSE, path |-> "manual", results |-> << >>] }
       ELSE { [ok |-> TRUE, path |-> "manual", results |-> r] :
                r \in performManualSimilaritySearch(queryEmbedding, threshold) }

\* clearIndex: deletes the two records of every member of the master set,
\* then the master set.
clearIndex(ik, idat, ivec) ==
  [ idxKeys |-> {},
    idxData |-> [ key \in DOMAIN idat \ ik |-> idat[key] ],
    idxVectors |-> [ key \in DOMAIN ivec \ ik |-> ivec[key] ] ]

(***************************************************************************)
(* Statistics.                                                             *)
(***************************************************************************)
\* The constructor's and resetStats' record (lastUpdated, a clock reading
\* nothing reads back, is left out).  hitRate is the fraction num/den.
ZeroStats ==
  [ hits |-> 0, misses |-> 0, hitRate |-> [num |-> 0, den |-> 1],
    totalRequests |-> 0, averageLatency |-> 0, storageSize |-> 0,
    evictions |-> 0 ]

\* A miss that is not counted as a request.
updateStatsHitsOnly(s, type, latency) ==
  IF type = "hit"
  THEN [ s EXCEPT !.totalRequests = @ + 1, !.hits = @ + 1 ]
  ELSE [ s EXCEPT !.misses = @ + 1 ]

updateStats(s, type, latency) ==
  LET total == s.totalRequests + 1
  IN [ s EXCEPT
         !.totalRequests = total,
         !.hits = IF type = "hit" THEN @ + 1 ELSE @,
         !.misses = IF type = "hit" THEN @ ELSE @ + 1,
         !.averageLatency = ((@ * (total - 1)) + latency) \div total ]

resetStats(s) == ZeroStats

\* getStats: recomputes hitRate in place and returns a copy.
getStats(s) ==
  [ s EXCEPT !.hitRate = IF s.totalRequests > 0
                         THEN [num |-> s.hits, den |-> s.totalRequests]
                         ELSE [num |-> 0, den |-> 1] ]

(***************************************************************************)
(* The catch blocks of the operations: what each does, in order, with the  *)
(* error it caught.  "throw:KIND" is the error reaching the caller.        *)
(***************************************************************************)
\* A catch that wraps the error without reporting it.
getCatchSilent == <<"throw:GET_ERROR">>
getCatch == <<"event:error", "throw:GET_ERROR">>
setCatchSilent == <<"throw:SET_ERROR">>
setCatch == <<"event:error", "throw:SET_ERROR">>
deleteCatch == <<"event:error", "throw:DELETE_ERROR">>
clearCatch == <<"throw:CLEAR_ERROR">>

(***************************************************************************)
(* delete(key): the strategy is always the default one.  The result is     *)
(* the state after the call, what it returned and the events it emitted.   *)
(***************************************************************************)
\* delete without the test of the store's reply: it reports a removal and
\* emits the event whether or not a record was there.
deleteUnconditional(key, st, ik, idat, ivec, wr, delOK) ==
  LET strategy == getStrategy(Absent)
      fingerprint == generateFingerprint(key, strategy, TRUE)
  IN [ store |-> IF fingerprint.hash \in DOMAIN st
                 THEN Without(st, fingerprint.hash) ELSE st,
       idxKeys |-> ik \ {fingerprint.hash},
       idxData |-> IF fingerprint.hash \in DOMAIN idat
                   THEN Without(idat, fingerprint.hash) ELSE idat,
       idxVectors |-> IF fingerprint.hash \in DOMAIN ivec
                      THEN Without(ivec, fingerprint.hash) ELSE ivec,
       written |-> IF fingerprint.hash \in DOMAIN wr
                   THEN Without(wr, fingerprint.hash) ELSE wr,
       hash |-> fingerprint.hash,
       returned |-> TRUE, error |-> "none",
       trace |-> <<"event:delete">> ]

delete(key, st, ik, idat, ivec, wr, delOK) ==
  LET strategy == getStrategy(Absent)
      fingerprint == generateFingerprint(key, strategy, TRUE)
      result == IF fingerprint.hash \in DOMAIN st THEN 1 ELSE 0
      semantic == strategy.type = "semantic"
  IN \* getStrategy() is inside the try (line 186): its error is caught
     IF ~IsRegistered(StrategyNameOf(Absent))
     THEN [ store |-> st, idxKeys |-> ik, idxData |-> idat, idxVectors |-> ivec,
            written |-> wr, hash |-> << >>,
            returned |-> FALSE, error |-> "DELETE_ERROR", trace |-> deleteCatch ]
     ELSE IF ~delOK
     THEN [ store |-> st, idxKeys |-> ik, idxData |-> idat, idxVectors |-> ivec,
            written |-> wr, hash |-> fingerprint.hash,
            returned |-> FALSE, error |-> "DELETE_ERROR", trace |-> deleteCatch ]
     ELSE IF result > 0
     THEN [ store |-> Without(st, fingerprint.hash),
            idxKeys |-> IF semantic THEN ik \ {fingerprint.hash} ELSE ik,
            idxData |-> IF semantic /\ fingerprint.hash \in DOMAIN idat
                        THEN Without(idat, fingerprint.hash) ELSE idat,
            idxVectors |-> IF semantic /\ fingerprint.hash \in DOMAIN ivec
                           THEN Without(ivec, fingerprint.hash) ELSE ivec,
            written |-> IF fingerprint.hash \in DOMAIN wr
                        THEN Without(wr, fingerprint.hash) ELSE wr,
            hash |-> fingerprint.hash,
            returned |-> TRUE, error |-> "none",
            trace |-> <<"event:delete">> ]
     ELSE [ store |-> st, idxKeys |-> ik, idxData |-> idat, idxVectors |-> ivec,
            written |-> wr, hash |-> fingerprint.hash,
            returned |-> FALSE, error |-> "none", trace |-> << >> ]

(***************************************************************************)
(* set(key, value, options): the state after the call and its summary.     *)
(***************************************************************************)
\* The entry set builds (lines 139-149).
setEntryOf(key, value, strategyOption, ttlOption, env) ==
  LET strategy == getStrategy(strategyOption)
      fingerprint == generateFingerprint(key, strategy, env.embOK)
  IN [ kind |-> "entry", data |-> value, timestamp |-> clock,
       ttl |-> OrElse(ttlOption, strategy.defaultTTL), fingerprint |-> fingerprint,
       strategy |-> strategy.name ]

\* What a set that has returned, or thrown, is remembered by.
SetSummary(key, value, strategyOption, ttlOption, env, outcome, error, trace) ==
  LET entry == setEntryOf(key, value, strategyOption, ttlOption, env)
      strategy == getStrategy(strategyOption)
      gated == strategy.hasShouldCache /\ ~shouldCache(strategy, key, value)
      indexed == strategy.type = "semantic" /\ entry.fingerprint.embedding # Absent
  IN [ op |-> "set", key |-> key, value |-> value, strategy |-> entry.strategy,
       hash |-> entry.fingerprint.hash, ttl |-> entry.ttl, outcome |-> outcome,
       ttlOption |-> ttlOption,
       error |-> error, trace |-> trace,
       storeFailed |-> ~gated /\ ~env.storeOK,
       indexFailed |-> ~gated /\ env.storeOK /\ indexed /\ ~env.indexOK ]

\* set returns early (line 152) or throws (lines 170-178): nothing is written.
setKeep(key, value, strategyOption, ttlOption, env, outcome, error, trace) ==
  [ store |-> store, idxKeys |-> idxKeys, idxData |-> idxData,
    idxVectors |-> idxVectors, written |-> written,
    rejected |-> IF outcome = "skipped"
                 THEN rejected \cup {setEntryOf(key, value, strategyOption,
                                                ttlOption, env).fingerprint.hash}
                 ELSE rejected,
    last |-> SetSummary(key, value, strategyOption, ttlOption, env,
                        outcome, error, trace) ]

\* A set whose indexEntry leaves the hash out of the master set.
setWriteNoMaster(key, value, strategyOption, ttlOption, env) ==
  LET strategy == getStrategy(strategyOption)
      entry == setEntryOf(key, value, strategyOption, ttlOption, env)
      fingerprint == entry.fingerprint
      indexed == strategy.type = "semantic" /\ fingerprint.embedding # Absent
  IN [ store |-> setEntry(store, fingerprint.hash, entry,
                          clock + entry.ttl * MsPerSecond),
       idxKeys |-> idxKeys,
       idxData |-> IF indexed
                   THEN (fingerprint.hash :> IndexData(fingerprint, entry)) @@ idxData
                   ELSE idxData,
       idxVectors |-> IF indexed
                      THEN (fingerprint.hash :>
                              [ vector |-> fingerprint.embedding[1],
                                metadata |-> IndexData(fingerprint, entry) ])
                           @@ idxVectors
                      ELSE idxVectors,
       written |-> (fingerprint.hash :> entry) @@ written,
       rejected |-> rejected \ {fingerprint.hash},
       last |-> SetSummary(key, value, strategyOption, ttlOption, env,
                           "stored", "none", <<"event:set">>) ]

\* set writes the entry, indexes it and emits the event (lines 156-168).
setWrite(key, value, strategyOption, ttlOption, env) ==
  LET strategy == getStrategy(strategyOption)
      entry == setEntryOf(key, value, strategyOption, ttlOption, env)
      fingerprint == entry.fingerprint
      indexed == strategy.type = "semantic" /\ fingerprint.embedding # Absent
  IN [ store |-> setEntry(store, fingerprint.hash, entry,
                          clock + entry.ttl * MsPerSecond),
       idxKeys |-> IF indexed THEN idxKeys \cup {fingerprint.hash} ELSE idxKeys,
       idxData |-> IF indexed
                   THEN (fingerprint.hash :> IndexData(fingerprint, entry)) @@ idxData
                   ELSE idxData,
       idxVectors |-> IF indexed
                      THEN (fingerprint.hash :>
                              [ vector |-> fingerprint.embedding[1],
                                metadata |-> IndexData(fingerprint, entry) ])
                           @@ idxVectors
                      ELSE idxVectors,
       written |-> (fingerprint.hash :> entry) @@ written,
       rejected |-> rejected \ {fingerprint.hash},
       last |-> SetSummary(key, value, strategyOption, ttlOption, env,
                           "stored", "none", <<"event:set">>) ]

\* A set whose gate is looked at after the write.
setGateAfterWrite(key, value, strategyOption, ttlOption, env) ==
  LET strategy == getStrategy(strategyOption)
  IN IF strategy.hasShouldCache /\ ~shouldCache(strategy, key, value)
     THEN [ setWrite(key, value, strategyOption, ttlOption, env) EXCEPT
              !.last = SetSummary(key, value, strategyOption, ttlOption, env,
                                  "skipped", "none", << >>) ]
     ELSE setWrite(key, value, strategyOption, ttlOption, env)

\* set whose indexEntry throws at its first write (cache-strategies.ts:289):
\* the record is in the store, the index is as before, and no set event.
setUnindexed(key, value, strategyOption, ttlOption, env) ==
  LET entry == setEntryOf(key, value, strategyOption, ttlOption, env)
  IN [ setKeep(key, value, strategyOption, ttlOption, env,
               "failed", "SET_ERROR", setCatch)
         EXCEPT !.store = setEntry(store, entry.fingerprint.hash, entry,
                                   clock + entry.ttl * MsPerSecond) ]

set(key, value, strategyOption, ttlOption, env) ==
  LET strategy == getStrategy(strategyOption)
      fingerprint == generateFingerprint(key, strategy, env.embOK)
  IN \* getStrategy is called before the try (line 141)
     IF ~IsRegistered(StrategyNameOf(strategyOption))
     THEN [ store |-> store, idxKeys |-> idxKeys, idxData |-> idxData,
            idxVectors |-> idxVectors, written |-> written, rejected |-> rejected,
            last |-> StrategyFailure("set", key, strategyOption) ]
     ELSE IF strategy.hasShouldCache /\ ~shouldCache(strategy, key, value)
     THEN setKeep(key, value, strategyOption, ttlOption, env, "skipped", "none", << >>)
     ELSE IF ~env.storeOK
     THEN setKeep(key, value, strategyOption, ttlOption, env,
                  "failed", "SET_ERROR", setCatch)
     ELSE IF strategy.type = "semantic" /\ fingerprint.embedding # Absent
             /\ ~env.indexOK
     THEN setUnindexed(key, value, strategyOption, ttlOption, env)
     ELSE setWrite(key, value, strategyOption, ttlOption, env)

(***************************************************************************)
(* get(key, options), first part: the fingerprint, the exact lookup, the   *)
(* semantic search and the promotion (lines 80-100).  Every outcome.       *)
(* env says what the collaborators do during the call: whether the         *)
(* embedding provider answers, whether the store has vector search,        *)
(* whether the store answers at all, and whether it takes a setex whose    *)
(* ttl is undefined.                                                       *)
(***************************************************************************)
getThreshold(call, strategy) ==
  OrElse(call.semanticThreshold, OrElse(strategy.semanticThreshold, FallbackThreshold))

getLookup(call, env) ==
  LET strategy == getStrategy(call.strategyOption)
      fingerprint == generateFingerprint(call.key, strategy, env.embOK)
      exact == getEntry(fingerprint.hash)
      semantic == /\ exact.kind = "null"
                  /\ call.enableSemantic # Some(FALSE)
                  /\ strategy.type = "semantic"
      outcome(threw, st, entry, consulted, path, found) ==
        [ threw |-> threw, store |-> st, entry |-> entry, consulted |-> consulted,
          path |-> path, fingerprint |-> fingerprint, found |-> found,
          results |-> << >>,
          threshold |-> getThreshold(call, strategy),
          matched |-> Absent,
          storeFailed |-> ~env.storeOK,
          nativeFailed |-> consulted /\ NativeSearchFails(fingerprint.embedding,
                                                         env.nativeOK),
          matcherFailed |-> FALSE, promoteFailed |-> FALSE,
          embFailed |-> strategy.type = "semantic" /\ ~env.embOK,
          expect |-> IF fingerprint.hash \in DOMAIN written
                     THEN written[fingerprint.hash] ELSE NullEntry ]
      promoted(found) ==
        LET keys == { found.results[i].key : i \in 1..Len(found.results) }
        IN IF ~found.ok
           THEN [ outcome(TRUE, store, NullEntry, TRUE, found.path, {})
                    EXCEPT !.matcherFailed = TRUE ]
           ELSE IF found.results = << >>
           THEN outcome(FALSE, store, NullEntry, TRUE, found.path, {})
           ELSE LET entry == found.results[1].entry
                IN IF entry.kind = "entry"
                   THEN [ outcome(FALSE,
                                  setEntry(store, fingerprint.hash, entry,
                                           clock + entry.ttl * MsPerSecond),
                                  entry, TRUE, found.path, keys)
                            EXCEPT !.matched = Some(found.results[1].key) ]
                   \* setex with the undefined ttl of {}: the store may refuse it
                   ELSE IF env.promoteOK
                   THEN [ outcome(FALSE,
                                  setEntry(store, fingerprint.hash, entry, NoExpiry),
                                  entry, TRUE, found.path, keys)
                            EXCEPT !.matched = Some(found.results[1].key) ]
                   ELSE [ outcome(TRUE, store, NullEntry, TRUE, found.path, keys)
                            EXCEPT !.matched = Some(found.results[1].key),
                                   !.promoteFailed = TRUE ]
  IN IF ~env.storeOK THEN { outcome(TRUE, store, NullEntry, FALSE, "none", {}) }
     ELSE IF ~semantic THEN { outcome(FALSE, store, exact, FALSE, "none", {}) }
     ELSE { [ promoted(found) EXCEPT !.results = found.results ] :
              found \in findSimilarQueries(fingerprint.embedding,
                                           getThreshold(call, strategy), env.nativeOK) }

(***************************************************************************)
(* get, second part: the verdict on the entry (lines 102-125), on the      *)
(* store st the first part left.                                           *)
(***************************************************************************)
\* What a hit does, in order (lines 103-109).
hitTrace(strategy) ==
  <<"stats:hit", "event:hit">> \o (IF strategy.onHit THEN <<"callback:onHit">> ELSE << >>)

\* A miss whose callback runs before its event.
missTraceCallbackFirst(strategy) ==
  <<"stats:miss">> \o (IF strategy.onMiss THEN <<"callback:onMiss">> ELSE << >>) \o
  <<"event:miss">>

\* What a miss does once the expired entry is dealt with (lines 116-122).
missTrace(strategy) ==
  <<"stats:miss", "event:miss">> \o
  (IF strategy.onMiss THEN <<"callback:onMiss">> ELSE << >>)

getFinish(call, looked, st, env) ==
  LET strategy == getStrategy(call.strategyOption)
      entry == looked.entry
      latency == clock - call.start
      hit == entry.kind # "null" /\ ~isExpired(entry, clock)
      expired == entry.kind # "null" /\ isExpired(entry, clock)
      kept == [ store |-> st, idxKeys |-> idxKeys, idxData |-> idxData,
                idxVectors |-> idxVectors, written |-> written,
                hash |-> looked.fingerprint.hash, returned |-> FALSE,
                error |-> "none", trace |-> << >> ]
      removed == IF expired
                 THEN delete(call.key, st, idxKeys, idxData, idxVectors, written,
                             env.deleteOK)
                 ELSE kept
  IN IF hit
     THEN [ store |-> st, idxKeys |-> idxKeys, idxData |-> idxData,
            idxVectors |-> idxVectors, written |-> written,
            stats |-> updateStats(stats, "hit", latency),
            result |-> IF entry.kind = "entry" THEN entry.data ELSE Undefined,
            verdict |-> "hit", expired |-> FALSE, error |-> "none",
            trace |-> hitTrace(strategy) ]
     \* the delete of the expired entry threw: get's catch (lines 126-130)
     ELSE IF removed.error # "none"
     THEN [ store |-> st, idxKeys |-> idxKeys, idxData |-> idxData,
            idxVectors |-> idxVectors, written |-> written, stats |-> stats,
            result |-> "threw", verdict |-> "error", expired |-> TRUE,
            error |-> "GET_ERROR", trace |-> removed.trace \o getCatch ]
     ELSE [ store |-> removed.store, idxKeys |-> removed.idxKeys,
            idxData |-> removed.idxData, idxVectors |-> removed.idxVectors,
            written |-> written,
            stats |-> updateStats(stats, "miss", latency),
            result |-> Null, verdict |-> "miss", expired |-> expired,
            error |-> "none",
            trace |-> removed.trace \o missTrace(strategy) ]

\* What a get that has returned, or thrown, is remembered by.
GetSummary(call, looked, result, error, verdict, expired, trace) ==
  [ op |-> "get", key |-> call.key, strategy |-> StrategyNameOf(call.strategyOption),
    hash |-> looked.fingerprint.hash, enableSemantic |-> call.enableSemantic,
    semanticThreshold |-> call.semanticThreshold,
    result |-> result, error |-> error, verdict |-> verdict, trace |-> trace,
    batch |-> call.batch, totalBefore |-> stats.totalRequests, expired |-> expired,
    consulted |-> looked.consulted, path |-> looked.path,
    embFailed |-> looked.embFailed, expect |-> looked.expect,
    judged |-> looked.entry, query |-> looked.fingerprint.embedding,
    threshold |-> looked.threshold, found |-> looked.found,
    results |-> looked.results,
    matched |-> looked.matched, storeFailed |-> looked.storeFailed,
    nativeFailed |-> looked.nativeFailed, matcherFailed |-> looked.matcherFailed,
    promoteFailed |-> looked.promoteFailed,
    deleteFailed |-> expired /\ error # "none" ]

(***************************************************************************)
(* getBatch helpers.                                                       *)
(***************************************************************************)
\* UTF-16 code units of the characters of the model.
CharCode(c) ==
  CASE c = " " -> 32
    [] c = "Q" -> 81
    [] c = "R" -> 82
    [] c = "q" -> 113
    [] c = "r" -> 114
    [] c = "s" -> 115
    [] OTHER -> 0

\* The order Array.prototype.sort() puts two strings in.
RECURSIVE StringLess(_, _)
StringLess(a, b) ==
  IF b = << >> THEN FALSE
  ELSE IF a = << >> THEN TRUE
  ELSE IF CharCode(Head(a)) # CharCode(Head(b))
       THEN CharCode(Head(a)) < CharCode(Head(b))
       ELSE StringLess(Tail(a), Tail(b))

RECURSIVE InsertSorted(_, _)
InsertSorted(x, sorted) ==
  IF sorted = << >> THEN <<x>>
  ELSE IF StringLess(x, Head(sorted)) THEN <<x>> \o sorted
       ELSE <<Head(sorted)>> \o InsertSorted(x, Tail(sorted))

\* keys.sort(): sorts the caller's array in place and returns it.
RECURSIVE sort(_)
sort(keys) ==
  IF keys = << >> THEN << >>
  ELSE InsertSorted(keys[Len(keys)], sort(SubSeq(keys, 1, Len(keys) - 1)))

\* generateBatchId: the digest of the sorted keys and the options.
generateBatchId(keys, options) == <<"md5", sort(keys), options>>

(***************************************************************************)
(* The state machine.                                                      *)
(***************************************************************************)
NoOp == [op |-> "none"]
IdleCall == [pc |-> "idle"]
IdleBatch == [state |-> "idle"]

CallSlots == 1..MaxCalls
BatchSlots == 1..MaxBatches

BatchKeyLists == { <<(<<"r">>)>>, <<(<<"r">>), (<<"Q">>)>> }
BatchSetKeys == { <<"r">> }
StrategyKeys == { <<"Q">> }
MatchKeys == { <<"Q">>, <<"r">>, <<"s">> }
NoOptions ==
  [ strategyOption |-> Absent, enableSemantic |-> Absent, semanticThreshold |-> Absent ]

\* What the collaborators may do during one call.
AllWell ==
  [ embOK |-> TRUE, nativeOK |-> TRUE, storeOK |-> TRUE, promoteOK |-> TRUE,
    deleteOK |-> TRUE, indexOK |-> TRUE ]
SetEnvs == { AllWell, [AllWell EXCEPT !.embOK = FALSE] }
\* ... and with a store that refuses the write, or the index's first write.
SetFailEnvs ==
  SetEnvs \cup { [AllWell EXCEPT !.storeOK = FALSE], [AllWell EXCEPT !.indexOK = FALSE] }
GetEnvs ==
  { AllWell,
    [AllWell EXCEPT !.nativeOK = FALSE],
    [AllWell EXCEPT !.embOK = FALSE, !.nativeOK = FALSE],
    [AllWell EXCEPT !.storeOK = FALSE],
    [AllWell EXCEPT !.promoteOK = FALSE],
    [AllWell EXCEPT !.deleteOK = FALSE] }

\* What the store may do to the delete of an expired entry.
FinishEnvs == { AllWell, [AllWell EXCEPT !.deleteOK = FALSE] }

FreeSlots == { c \in CallSlots : calls[c].pc = "idle" }
Min(S) == CHOOSE x \in S : \A y \in S : x <= y

RECURSIVE FirstN(_, _)
FirstN(S, n) == IF n = 0 \/ S = {} THEN << >> ELSE <<Min(S)>> \o FirstN(S \ {Min(S)}, n - 1)

(***************************************************************************)
(* Events.                                                                 *)
(***************************************************************************)
EventTypes == { "hit", "miss", "set", "delete", "evict", "error" }

\* The type of the event a step of a trace emits; "none" for another step.
EventOf(item) ==
  CASE item = "event:hit" -> "hit"
    [] item = "event:miss" -> "miss"
    [] item = "event:set" -> "set"
    [] item = "event:delete" -> "delete"
    [] item = "event:evict" -> "evict"
    [] item = "event:error" -> "error"
    [] OTHER -> "none"

\* The listeners of a type up to and including the first that throws.
RECURSIVE UpToThrow(_)
UpToThrow(ls) ==
  IF ls = << >> THEN << >>
  ELSE IF Head(ls).throws THEN <<Head(ls)>>
  ELSE <<Head(ls)>> \o UpToThrow(Tail(ls))

\* An emitEvent without the try around the listener's call.
emitEventNoCatch(type, listeners) ==
  [ log |-> [ i \in 1..Len(UpToThrow(listeners[type])) |->
                [ type |-> type, listener |-> listeners[type][i].id ] ],
    threw |-> \E i \in 1..Len(listeners[type]) : listeners[type][i].throws ]

\* emitEvent: calls every listener of the type, in the order of the array;
\* what a listener throws is caught and logged.
emitEvent(type, listeners) ==
  [ log |-> [ i \in 1..Len(listeners[type]) |->
                [ type |-> type, listener |-> listeners[type][i].id ] ],
    threw |-> FALSE ]

NoDelivery == [ log |-> << >>, threw |-> FALSE ]

\* The emitEvent calls of an operation's trace, one after the other.
RECURSIVE Deliver(_, _)
Deliver(trace, listeners) ==
  IF trace = << >> THEN NoDelivery
  ELSE LET rest == Deliver(Tail(trace), listeners)
           type == EventOf(Head(trace))
       IN IF type = "none" THEN rest
          ELSE [ log |-> emitEvent(type, listeners).log \o rest.log,
                 threw |-> emitEvent(type, listeners).threw \/ rest.threw ]

\* A manager whose configured default strategy may be one that
\* initializeStrategies does not register: the constructor does not look.
RegistryDefaults == { DefaultStrategy, "missing" }
RegistryOptions == { Absent, Some("exact"), Some("missing") }

InitWith(defaultStrategy) ==
  /\ config = [ defaultStrategy |-> defaultStrategy ]
  /\ eventListeners = [ type \in EventTypes |-> << >> ]
  /\ delivered = NoDelivery
  /\ clock = 0
  /\ ticks = 0
  /\ nops = 0
  /\ store = Empty
  /\ idxKeys = {}
  /\ idxData = Empty
  /\ idxVectors = Empty
  /\ stats = ZeroStats
  /\ batchRequests = {}
  /\ calls = [c \in CallSlots |-> IdleCall]
  /\ batches = [b \in BatchSlots |-> IdleBatch]
  /\ written = Empty
  /\ rejected = {}
  /\ last = NoOp

Init == InitWith(DefaultStrategy)
RegistryInit == \E defaultStrategy \in RegistryDefaults : InitWith(defaultStrategy)

\* Time passes.
Tick(d) ==
  /\ UNCHANGED delivered
  /\ last = NoOp
  /\ ticks < MaxTicks
  /\ clock' = clock + d
  /\ ticks' = ticks + 1
  /\ last' = NoOp
  /\ UNCHANGED <<config, eventListeners, nops, store, idxKeys, idxData, idxVectors, stats, batchRequests,
                 calls, batches, written, rejected>>

\* The store drops a record whose TTL (setex) has run out.  It does so on its
\* own clock, at some moment after the manager's clock has passed the expiry.
StoreExpire(key) ==
  /\ UNCHANGED delivered
  /\ last = NoOp
  /\ key \in DOMAIN store
  /\ store[key].expireAt # NoExpiry
  /\ clock > store[key].expireAt
  /\ store' = Without(store, key)
  /\ last' = NoOp
  /\ UNCHANGED <<config, eventListeners, clock, ticks, nops, idxKeys, idxData, idxVectors, stats,
                 batchRequests, calls, batches, written, rejected>>

Set(key, value, strategyOption, ttlOption, env) ==
  /\ last = NoOp
  /\ nops' = nops + 1
  /\ \E after \in { set(key, value, strategyOption, ttlOption, env) } :
        /\ delivered' = Deliver(after.last.trace, eventListeners)
        /\ store' = after.store
        /\ idxKeys' = after.idxKeys
        /\ idxData' = after.idxData
        /\ idxVectors' = after.idxVectors
        /\ written' = after.written
        /\ rejected' = after.rejected
        /\ last' = after.last
  /\ UNCHANGED <<config, eventListeners, clock, ticks, stats, batchRequests, calls, batches>>

Delete(key, delOK) ==
  /\ last = NoOp
  /\ nops' = nops + 1
  /\ \E after \in { delete(key, store, idxKeys, idxData, idxVectors, written, delOK) } :
        /\ delivered' = Deliver(after.trace, eventListeners)
        /\ store' = after.store
        /\ idxKeys' = after.idxKeys
        /\ idxData' = after.idxData
        /\ idxVectors' = after.idxVectors
        /\ written' = after.written
        /\ last' = [ op |-> "delete", key |-> key, hash |-> after.hash,
                     strategy |-> StrategyNameOf(Absent),
                     returned |-> after.returned, error |-> after.error,
                     trace |-> after.trace ]
  /\ UNCHANGED <<config, eventListeners, clock, ticks, stats, batchRequests, calls, batches, rejected>>

(***************************************************************************)
(* The key space of the store: the cache records, and the records of the   *)
(* semantic index, 'scira_cache_embeddings:<hash>',                        *)
(* 'scira_cache_embeddings:vectors:<hash>' and the master set              *)
(* 'scira_cache_embeddings:keys'.  A pattern is the text before its final  *)
(* '*', in segments, or a literal key.                                     *)
(***************************************************************************)
IndexName == "scira_cache_embeddings"
IndexKey(hash) == <<IndexName>> \o hash
VectorKey(hash) == <<IndexName, "vectors">> \o hash
MasterKey == <<IndexName, "keys">>

\* Redis glob matching, for the patterns of the model.
Match(pattern, key) ==
  IF pattern # << >> /\ pattern[Len(pattern)] = "*"
  THEN /\ Len(key) > Len(pattern) - 1
       /\ SubSeq(key, 1, Len(pattern) - 1) = SubSeq(pattern, 1, Len(pattern) - 1)
  ELSE key = pattern

\* A KEYS that looks at the cache records only.
keysOfCacheOnly(pattern, st, ik, idat, ivec) ==
  [ store |-> { k \in DOMAIN st : Match(pattern, k) },
    data |-> {}, vectors |-> {}, master |-> FALSE ]

\* redis.keys(pattern): the matching keys, by the structure they belong to.
keysMatching(pattern, st, ik, idat, ivec) ==
  [ store |-> { k \in DOMAIN st : Match(pattern, k) },
    data |-> { h \in DOMAIN idat : Match(pattern, IndexKey(h)) },
    vectors |-> { h \in DOMAIN ivec : Match(pattern, VectorKey(h)) },
    master |-> ik # {} /\ Match(pattern, MasterKey) ]

\* keys.length, which is also what del(...keys) returns.
KeyCount(found) ==
  Cardinality(found.store) + Cardinality(found.data) + Cardinality(found.vectors)
    + (IF found.master THEN 1 ELSE 0)

\* The map m without the keys of K.
WithoutAll(m, K) == [ k \in DOMAIN m \ K |-> m[k] ]

\* A clear that leaves the counters alone.
clearKeepsStats(pattern, s, flushOK) ==
  [ store |-> Empty, idxKeys |-> {}, idxData |-> Empty, idxVectors |-> Empty,
    stats |-> s, written |-> Empty, rejected |-> {}, returned |-> 1,
    error |-> "none", trace |-> <<"event:evict">> ]

\* clear() without a pattern: flushall, clearIndex, resetStats.  The index
\* lives in the same store, so flushall has emptied it before clearIndex
\* reads the master set.
\* When flushall throws, the catch (lines 252-254) wraps the error and
\* nothing has changed.
\* clear(pattern) with a pattern (lines 236-243): keys, then del of what it
\* found and the evict event, or 0.  'if (pattern)': the empty string is no
\* pattern.
clear(pattern, s, flushOK) ==
  LET flushed == [ idxKeys |-> {}, idxData |-> Empty, idxVectors |-> Empty ]
      index == clearIndex(flushed.idxKeys, flushed.idxData, flushed.idxVectors)
      found == keysMatching(pattern[1], store, idxKeys, idxData, idxVectors)
      kept == [ store |-> store, idxKeys |-> idxKeys, idxData |-> idxData,
                idxVectors |-> idxVectors, stats |-> s, written |-> written,
                rejected |-> rejected, returned |-> 0,
                error |-> "none", trace |-> << >> ]
  IN IF ~flushOK
     THEN [ kept EXCEPT !.error = "CLEAR_ERROR", !.trace = clearCatch ]
     ELSE IF pattern # Absent /\ pattern[1] # << >>
     THEN IF KeyCount(found) > 0
          THEN [ store |-> WithoutAll(store, found.store),
                 idxKeys |-> IF found.master THEN {} ELSE idxKeys,
                 idxData |-> WithoutAll(idxData, found.data),
                 idxVectors |-> WithoutAll(idxVectors, found.vectors),
                 stats |-> s,
                 written |-> WithoutAll(written, found.store),
                 rejected |-> rejected, returned |-> KeyCount(found),
                 error |-> "none", trace |-> <<"event:evict">> ]
          ELSE kept
     ELSE [ store |-> Empty, idxKeys |-> index.idxKeys, idxData |-> index.idxData,
            idxVectors |-> index.idxVectors, stats |-> resetStats(s),
            written |-> Empty, rejected |-> {}, returned |-> 1,
            error |-> "none", trace |-> <<"event:evict">> ]

Clear(pattern, flushOK) ==
  /\ last = NoOp
  /\ nops' = nops + 1
  /\ \E after \in { clear(pattern, stats, flushOK) } :
        /\ delivered' = Deliver(after.trace, eventListeners)
        /\ store' = after.store
        /\ idxKeys' = after.idxKeys
        /\ idxData' = after.idxData
        /\ idxVectors' = after.idxVectors
        /\ stats' = after.stats
        /\ written' = after.written
        /\ rejected' = after.rejected
        /\ last' = [ op |-> "clear", pattern |-> pattern, returned |-> after.returned,
                     error |-> after.error, trace |-> after.trace,
                     storeFailed |-> ~flushOK,
                     before |-> [ entries |-> Cardinality(DOMAIN store),
                                  indexed |-> Cardinality(idxKeys),
                                  requests |-> stats.totalRequests ] ]
  /\ UNCHANGED <<config, eventListeners, clock, ticks, batchRequests, calls, batches>>

GetStats ==
  /\ UNCHANGED delivered
  /\ last = NoOp
  /\ stats' = getStats(stats)
  /\ last' = [ op |-> "getStats", returned |-> getStats(stats) ]
  /\ UNCHANGED <<config, eventListeners, clock, ticks, nops, store, idxKeys, idxData, idxVectors, batchRequests,
                 calls, batches, written, rejected>>

\* A metrics tick that starts the counters afresh.
MetricsTickResets(infoOK, usedMemory) ==
  /\ UNCHANGED delivered
  /\ last = NoOp
  /\ nops' = nops + 1
  /\ stats' = IF infoOK THEN [ZeroStats EXCEPT !.storageSize = usedMemory] ELSE stats
  /\ last' = NoOp
  /\ UNCHANGED <<config, eventListeners, clock, ticks, store, idxKeys, idxData, idxVectors, batchRequests,
                 calls, batches, written, rejected>>

\* The metrics tick: redis.info(), then updateStorageMetrics.
MetricsTick(infoOK, usedMemory) ==
  /\ UNCHANGED delivered
  /\ last = NoOp
  /\ nops' = nops + 1
  /\ stats' = IF infoOK THEN [stats EXCEPT !.storageSize = usedMemory] ELSE stats
  /\ last' = NoOp
  /\ UNCHANGED <<config, eventListeners, clock, ticks, store, idxKeys, idxData, idxVectors, batchRequests,
                 calls, batches, written, rejected>>

\* A get call as issued: its arguments and the clock it read (line 76).
IssuedCall(key, options, batch) ==
  [ pc |-> "issued", key |-> key, strategyOption |-> options.strategyOption,
    enableSemantic |-> options.enableSemantic,
    semanticThreshold |-> options.semanticThreshold,
    start |-> clock, batch |-> batch ]

\* What a finished get leaves in its batch, if it belongs to one.
\* A batch whose map leaves out the keys whose get produced null.
BatchAfterSkipsNull(call, result, threw, reads) ==
  IF call.batch = 0 THEN batches
  ELSE [ batches EXCEPT ![call.batch] =
           [ @ EXCEPT !.pending = @ - 1,
                      !.reads = @ + reads,
                      !.failed = @ \/ threw,
                      !.produced = IF threw THEN @ ELSE @ \cup {<<call.key, result>>},
                      !.results = IF threw \/ result = Null THEN @
                                  ELSE (call.key :> result) @@ @ ] ]

\* produced is what the gets of the batch returned; results is the map
\* (results.set(key, value), line 224).  A batch that was rejected while
\* gets were still running is over when the last of them ends.
BatchAfter(call, result, threw, reads) ==
  IF call.batch = 0 THEN batches
  ELSE LET updated ==
             [ batches[call.batch] EXCEPT
                 !.pending = @ - 1,
                 !.reads = @ + reads,
                 !.failed = @ \/ threw,
                 !.produced = IF threw THEN @ ELSE @ \cup {<<call.key, result>>},
                 !.results = IF threw THEN @ ELSE (call.key :> result) @@ @ ]
       IN [ batches EXCEPT ![call.batch] =
              IF updated.state = "settled" /\ updated.pending = 0
              THEN IdleBatch ELSE updated ]

\* A get called on its own: the whole handler.
Get(key, strategyOption, enableSemantic, semanticThreshold, env) ==
  /\ last = NoOp
  /\ nops' = nops + 1
  /\ \E call \in { IssuedCall(key, [ strategyOption |-> strategyOption,
                                      enableSemantic |-> enableSemantic,
                                      semanticThreshold |-> semanticThreshold ], 0) } :
        \* getStrategy is called before the try (line 77)
        IF ~IsRegistered(StrategyNameOf(strategyOption))
        THEN /\ last' = StrategyFailure("get", key, strategyOption)
             /\ UNCHANGED <<store, idxKeys, idxData, idxVectors, written, stats>>
        ELSE
        \E looked \in getLookup(call, env) :
          IF looked.threw
          THEN /\ last' = GetSummary(call, looked, "threw", "GET_ERROR", "error",
                                     FALSE, getCatch)
               /\ UNCHANGED <<store, idxKeys, idxData, idxVectors, written, stats>>
          ELSE \E after \in { getFinish(call, looked, looked.store, env) } :
                  /\ store' = after.store
                  /\ idxKeys' = after.idxKeys
                  /\ idxData' = after.idxData
                  /\ idxVectors' = after.idxVectors
                  /\ written' = after.written
                  /\ stats' = after.stats
                  /\ last' = GetSummary(call, looked, after.result, after.error,
                                        after.verdict, after.expired, after.trace)
  /\ UNCHANGED <<config, eventListeners, clock, ticks, batchRequests, calls, batches, rejected>>
  /\ delivered' = Deliver(last'.trace, eventListeners)

\* A get of a batch, up to the await that ends its lookup.
GetLookup(c, env) ==
  /\ last = NoOp
  /\ calls[c].pc = "issued"
  /\ \E looked \in getLookup(calls[c], env) :
       IF looked.threw
       THEN /\ calls' = [calls EXCEPT ![c] = IdleCall]
            /\ batches' = BatchAfter(calls[c], Null, TRUE, IF env.storeOK THEN 1 ELSE 0)
            /\ last' = GetSummary(calls[c], looked, "threw", "GET_ERROR", "error",
                                  FALSE, getCatch)
            /\ UNCHANGED store
       ELSE /\ calls' = [ calls EXCEPT ![c] =
                            [ pc |-> "looked", key |-> @.key,
                              strategyOption |-> @.strategyOption,
                              enableSemantic |-> @.enableSemantic,
                              semanticThreshold |-> @.semanticThreshold,
                              start |-> @.start, batch |-> @.batch,
                              looked |-> [looked EXCEPT !.store = Empty] ] ]
            /\ store' = looked.store
            /\ last' = NoOp
            /\ UNCHANGED batches
  /\ UNCHANGED <<config, eventListeners, clock, ticks, nops, idxKeys, idxData, idxVectors, stats,
                 batchRequests, written, rejected>>
  /\ delivered' = IF last' = NoOp THEN NoDelivery
                  ELSE Deliver(last'.trace, eventListeners)

\* A get of a batch, from there to its return.
GetFinish(c, env) ==
  /\ last = NoOp
  /\ calls[c].pc = "looked"
  /\ \E call \in { calls[c] } :
     \E after \in { getFinish(call, call.looked, store, env) } :
        /\ store' = after.store
        /\ idxKeys' = after.idxKeys
        /\ idxData' = after.idxData
        /\ idxVectors' = after.idxVectors
        /\ written' = after.written
        /\ stats' = after.stats
        /\ batches' = BatchAfter(call, after.result, after.error # "none", 1)
        /\ last' = GetSummary(call, call.looked, after.result, after.error,
                              after.verdict, after.expired, after.trace)
  /\ calls' = [calls EXCEPT ![c] = IdleCall]
  /\ UNCHANGED <<config, eventListeners, clock, ticks, nops, batchRequests, rejected>>
  /\ delivered' = Deliver(last'.trace, eventListeners)

\* getBatch up to its first await: the batch id (which sorts the caller's
\* keys), the look at batchRequests, and one get issued per key.
BatchStart(b, keys, options) ==
  /\ UNCHANGED delivered
  /\ last = NoOp
  /\ nops' = nops + 1
  /\ batches[b].state = "idle"
  /\ \A a \in BatchSlots : a < b => batches[a].state # "idle"
  /\ Cardinality(FreeSlots) >= Len(keys)
  /\ LET batchId == generateBatchId(keys, options)
         sorted == sort(keys)
         slots == FirstN(FreeSlots, Len(keys))
         waits == batchId \in batchRequests
     IN /\ batches' = [ batches EXCEPT ![b] =
                          [ state |-> IF waits THEN "waiting" ELSE "running",
                            id |-> batchId, given |-> keys, keys |-> sorted,
                            options |-> options, results |-> Empty, produced |-> {},
                            pending |-> Len(keys), reads |-> 0, failed |-> FALSE,
                            overlaps |-> \E a \in BatchSlots :
                                           /\ a # b
                                           /\ batches[a].state \in {"waiting", "running"}
                                           /\ batches[a].id = batchId ] ]
        /\ calls' = IF waits THEN calls
                    ELSE [ c \in CallSlots |->
                             IF \E i \in 1..Len(keys) : slots[i] = c
                             THEN IssuedCall(sorted[CHOOSE i \in 1..Len(keys) : slots[i] = c],
                                             options, b)
                             ELSE calls[c] ]
  /\ last' = NoOp
  /\ UNCHANGED <<config, eventListeners, clock, ticks, store, idxKeys, idxData, idxVectors, stats,
                 batchRequests, written, rejected>>

\* Promise.all has settled: it resolves when every get has returned, and
\* rejects as soon as one get has thrown, whatever the others are doing.
\* The batch returns its map, or throws the first error.
BatchJoin(b) ==
  /\ UNCHANGED delivered
  /\ last = NoOp
  /\ batches[b].state = "running"
  /\ batches[b].pending = 0 \/ batches[b].failed
  /\ last' = [ op |-> "getBatch", given |-> batches[b].given, keys |-> batches[b].keys,
               results |-> batches[b].results, reads |-> batches[b].reads,
               overlaps |-> batches[b].overlaps,
               pending |-> batches[b].pending, produced |-> batches[b].produced,
               error |-> IF batches[b].failed THEN "GET_ERROR" ELSE "none" ]
  /\ batches' = [ batches EXCEPT ![b] =
                    IF @.pending = 0 THEN IdleBatch
                    ELSE [ @ EXCEPT !.state = "settled" ] ]
  /\ UNCHANGED <<config, eventListeners, clock, ticks, nops, store, idxKeys, idxData, idxVectors, stats,
                 batchRequests, calls, written, rejected>>

\* The caller takes what the operation returned.
Return ==
  /\ delivered' = NoDelivery
  /\ last # NoOp
  /\ last' = NoOp
  /\ UNCHANGED <<config, eventListeners, clock, ticks, nops, store, idxKeys, idxData, idxVectors, stats,
                 batchRequests, calls, batches, written, rejected>>

\* The listeners a caller registers: the second one throws on every event.
ListenerPool == { [id |-> 1, throws |-> FALSE], [id |-> 2, throws |-> TRUE] }
ListenerKeys == { <<"Q">>, <<"r">> }

\* The number of registrations, over all event types.
RECURSIVE Registered(_)
Registered(types) ==
  IF types = {} THEN 0
  ELSE LET type == CHOOSE t \in types : TRUE
       IN Len(eventListeners[type]) + Registered(types \ {type})

\* listeners.indexOf(listener): the first position, 0 for none.
IndexOf(listeners, listener) ==
  IF \E i \in 1..Len(listeners) : listeners[i] = listener
  THEN Min({ i \in 1..Len(listeners) : listeners[i] = listener })
  ELSE 0

\* on(eventType, listener): pushes the listener on the array of the type.
On(eventType, listener) ==
  /\ last = NoOp
  /\ Registered(EventTypes) < MaxListeners
  /\ eventListeners' = [eventListeners EXCEPT ![eventType] = Append(@, listener)]
  /\ UNCHANGED <<config, delivered, clock, ticks, nops, store, idxKeys, idxData,
                 idxVectors, stats, batchRequests, calls, batches, written,
                 rejected, last>>

\* off(eventType, listener): splices the first occurrence out, if there is one.
Off(eventType, listener) ==
  /\ last = NoOp
  /\ LET listeners == eventListeners[eventType]
         index == IndexOf(listeners, listener)
     IN eventListeners' =
          IF index > 0
          THEN [ eventListeners EXCEPT ![eventType] =
                   SubSeq(listeners, 1, index - 1) \o
                   SubSeq(listeners, index + 1, Len(listeners)) ]
          ELSE eventListeners
  /\ UNCHANGED <<config, delivered, clock, ticks, nops, store, idxKeys, idxData,
                 idxVectors, stats, batchRequests, calls, batches, written,
                 rejected, last>>

\* Listeners that call off while an event is dispatched: removes is the id
\* of the listener a listener takes off the event's type when it is called
\* (itself, another one, or 0 for none).
DispatchPool ==
  { [id |-> 1, throws |-> FALSE, removes |-> 1],
    [id |-> 2, throws |-> FALSE, removes |-> 0],
    [id |-> 3, throws |-> FALSE, removes |-> 2] }

\* listeners.splice(index, 1), where index is that of the first listener
\* with the id; the array as it is when there is none.
spliceOut(listeners, id) ==
  IF \E i \in 1..Len(listeners) : listeners[i].id = id
  THEN TheOne({ SubSeq(listeners, 1, index - 1) \o
                  SubSeq(listeners, index + 1, Len(listeners)) :
                index \in { Min({ i \in 1..Len(listeners) : listeners[i].id = id }) } })
  ELSE listeners

\* listeners.forEach(listener => ...) on the array the listeners' off calls
\* splice while it runs: the indices below the length at the start are
\* visited in order, and an index the array no longer has is passed over.
RECURSIVE forEach(_, _, _, _)
forEach(listeners, k, length, log) ==
  IF k > length THEN [ listeners |-> listeners, log |-> log ]
  ELSE IF k > Len(listeners) THEN forEach(listeners, k + 1, length, log)
  ELSE forEach(spliceOut(listeners, listeners[k].removes), k + 1, length,
               Append(log, listeners[k].id))

\* emitEvent of one event of the type, with listeners that may call off: the
\* array after the dispatch and the listeners called, in order.
EmitEvent(type) ==
  /\ last = NoOp
  /\ nops' = nops + 1
  /\ \E after \in { forEach(eventListeners[type], 1, Len(eventListeners[type]), << >>) } :
       /\ eventListeners' = [eventListeners EXCEPT ![type] = after.listeners]
       /\ delivered' = [ log |-> [ i \in 1..Len(after.log) |->
                                    [ type |-> type, listener |-> after.log[i] ] ],
                         threw |-> FALSE ]
  /\ last' = [ op |-> "emit", type |-> type, error |-> "none", trace |-> << >>,
               registered |-> eventListeners[type] ]
  /\ UNCHANGED <<config, clock, ticks, store, idxKeys, idxData, idxVectors, stats,
                 batchRequests, calls, batches, written, rejected>>

(***************************************************************************)
(* The caching wrappers.  A wrapper's call is its cache.get, a Get step of  *)
(* the manager, and then the step below, which takes up the get's outcome:  *)
(* the hit, the wrapped function, the cache.set and the catch.              *)
(***************************************************************************)
\* The cache as a wrapper leaves it when it writes nothing.
Untouched ==
  [ store |-> store, idxKeys |-> idxKeys, idxData |-> idxData,
    idxVectors |-> idxVectors, written |-> written, rejected |-> rejected,
    last |-> [ op |-> "none", error |-> "none", trace |-> << >> ] ]

\* What a wrapper's call is remembered by: invocations is the number of
\* times the wrapped function was called.
WrapperSummary(op, hit, getFailed, threw, setFailed, invocations) ==
  [ op |-> op, key |-> last.key, hit |-> hit, getFailed |-> getFailed,
    wrappedThrew |-> threw, setFailed |-> setFailed, invocations |-> invocations,
    error |-> "none", trace |-> << >> ]

\* The rest of a wrapper's call, writes saying whether it reaches cache.set,
\* summary what it is remembered by when the set returns and onSetFailure
\* the number of calls of the wrapped function when the set throws.
WrapperFinish(writes, env, summary, onSetFailure) ==
  \E after \in { IF writes THEN set(last.key, "v1", Absent, Absent, env)
                 ELSE Untouched } :
     /\ store' = after.store
     /\ idxKeys' = after.idxKeys
     /\ idxData' = after.idxData
     /\ idxVectors' = after.idxVectors
     /\ written' = after.written
     /\ rejected' = after.rejected
     /\ delivered' = Deliver(after.last.trace, eventListeners)
     /\ last' = IF writes /\ after.last.error # "none"
                THEN [summary EXCEPT !.setFailed = TRUE,
                                     !.invocations = onSetFailure]
                ELSE summary
     /\ UNCHANGED <<config, eventListeners, clock, ticks, nops, stats,
                    batchRequests, calls, batches>>

\* withServerActionCache (part_001:117-172) from the outcome of its
\* cache.get (enableSemantic: false) on.  A cached value other than null is
\* returned; otherwise the action is called and its result is set; whatever
\* is thrown in the try, by the get, the action or the set, is caught and
\* the catch calls the action.  actionOK is whether the action returns.
withServerActionCache(actionOK, env) ==
  /\ last.op = "get"
  /\ last.enableSemantic = Some(FALSE)
  /\ \E getFailed \in { last.error # "none" } :
     \E hit \in { ~getFailed /\ last.result # Null } :
       WrapperFinish(~getFailed /\ ~hit /\ actionOK, env,
                     WrapperSummary("withServerActionCache", hit, getFailed,
                                    ~hit /\ ~actionOK, FALSE,
                                    IF hit THEN 0
                                    ELSE IF getFailed THEN 1
                                    ELSE IF ~actionOK THEN 2
                                    ELSE 1),
                     2)

\* withApiCache (part_001:33-112) from the outcome of its cache.get
\* (enableSemantic: true) on.  A truthy cached value is the response;
\* otherwise the handler is called and, when its response is ok, the
\* response's data is set in a try of its own; whatever else is thrown in
\* the outer try is caught and the catch calls the handler.
withApiCache(handlerOK, responseOK, env) ==
  /\ last.op = "get"
  /\ last.enableSemantic = Some(TRUE)
  /\ \E getFailed \in { last.error # "none" } :
     \E hit \in { ~getFailed /\ last.result \notin { Null, Undefined } } :
       WrapperFinish(~getFailed /\ ~hit /\ handlerOK /\ responseOK, env,
                     WrapperSummary("withApiCache", hit, getFailed,
                                    ~hit /\ ~handlerOK, FALSE,
                                    IF hit THEN 0
                                    ELSE IF getFailed THEN 1
                                    ELSE IF ~handlerOK THEN 2
                                    ELSE 1),
                     1)

\* The caller may start another operation.
Within(bound) == nops < bound

Next ==
  \/ Return
  \/ \E d \in TickSteps : Tick(d)
  \/ \E key \in DOMAIN store : StoreExpire(key)
  \/ /\ Within(MaxOps)
     /\ \E key \in RawKeys, value \in Values, strategyOption \in StrategyOptions,
           ttlOption \in TtlOptions, env \in SetEnvs :
          Set(key, value, strategyOption, ttlOption, env)
  \/ /\ Within(MaxOps)
     /\ \E key \in RawKeys, delOK \in BOOLEAN : Delete(key, delOK)
  \/ /\ Within(MaxOps)
     /\ Clear(Absent, TRUE)
  \/ GetStats
  \/ /\ Within(MaxOps)
     /\ \E infoOK \in BOOLEAN, usedMemory \in MemorySamples :
          MetricsTick(infoOK, usedMemory)
  \/ /\ Within(MaxOps)
     /\ \E key \in RawKeys, strategyOption \in StrategyOptions,
           enableSemantic \in SemanticOptions, semanticThreshold \in ThresholdOptions,
           env \in GetEnvs :
          Get(key, strategyOption, enableSemantic, semanticThreshold, env)

Spec == Init /\ [][Next]_vars

\* Concurrent batches, with sets and the clock in between.
BatchNext ==
  \/ Return
  \/ \E d \in TickSteps : Tick(d)
  \/ \E key \in DOMAIN store : StoreExpire(key)
  \/ /\ Within(MaxOps)
     /\ \E key \in BatchSetKeys, strategyOption \in StrategyOptions :
          Set(key, "v1", strategyOption, Absent, AllWell)
  \/ \E c \in CallSlots, env \in GetEnvs : GetLookup(c, env)
  \/ \E c \in CallSlots, env \in FinishEnvs : GetFinish(c, env)
  \/ /\ Within(MaxOps)
     /\ \E b \in BatchSlots, keys \in BatchKeyLists : BatchStart(b, keys, NoOptions)
  \/ \E b \in BatchSlots : BatchJoin(b)

BatchSpec == Init /\ [][BatchNext]_vars

\* Every operation that touches the counters, calls on their own and
\* batches in flight together, on one key with every collaborator answering.
StatsNext ==
  \/ Return
  \/ \E d \in TickSteps : Tick(d)
  \/ /\ Within(MaxOps)
     /\ \E key \in BatchSetKeys : Set(key, "v1", Absent, Absent, AllWell)
  \/ /\ Within(MaxOps)
     /\ \E key \in BatchSetKeys : Delete(key, TRUE)
  \/ /\ Within(MaxOps)
     /\ Clear(Absent, TRUE)
  \/ GetStats
  \/ /\ Within(MaxOps)
     /\ \E usedMemory \in MemorySamples : MetricsTick(TRUE, usedMemory)
  \/ /\ Within(MaxOps)
     /\ \E key \in BatchSetKeys : Get(key, Absent, Absent, Absent, AllWell)
  \/ \E c \in CallSlots : GetLookup(c, AllWell)
  \/ \E c \in CallSlots, env \in FinishEnvs : GetFinish(c, env)
  \/ /\ Within(MaxOps)
     /\ \E b \in BatchSlots, keys \in BatchKeyLists : BatchStart(b, keys, NoOptions)
  \/ \E b \in BatchSlots : BatchJoin(b)

StatsSpec == Init /\ [][StatsNext]_vars

\* One key under every strategy of the model, through a longer run of sets,
\* gets and deletes, every collaborator answering.
StrategyNext ==
  \/ Return
  \/ \E d \in TickSteps : Tick(d)
  \/ \E key \in DOMAIN store : StoreExpire(key)
  \/ /\ Within(MaxStrategyOps)
     /\ \E key \in StrategyKeys, strategyOption \in StrategyOptions :
          Set(key, "v1", strategyOption, Absent, AllWell)
  \/ /\ Within(MaxStrategyOps)
     /\ \E key \in StrategyKeys : Delete(key, TRUE)
  \/ /\ Within(MaxStrategyOps)
     /\ \E key \in StrategyKeys, strategyOption \in StrategyOptions :
          Get(key, strategyOption, Absent, Absent, AllWell)

StrategySpec == Init /\ [][StrategyNext]_vars

\* Several entries in the index, some as near to a query as others, written
\* at different times, and the gets that search among them.
MatchNext ==
  \/ Return
  \/ \E d \in TickSteps : Tick(d)
  \/ \E key \in DOMAIN store : StoreExpire(key)
  \/ /\ Within(MaxOps)
     /\ \E key \in MatchKeys : Set(key, "v1", Absent, Absent, AllWell)
  \/ /\ Within(MaxOps)
     /\ \E key \in MatchKeys, env \in GetEnvs :
          Get(key, Absent, Absent, Absent, env)

MatchSpec == Init /\ [][MatchNext]_vars

\* The operations with listeners registered and removed between them.
ListenerNext ==
  \/ Return
  \/ \E d \in TickSteps : Tick(d)
  \/ \E eventType \in EventTypes, listener \in ListenerPool : On(eventType, listener)
  \/ \E eventType \in EventTypes, listener \in ListenerPool : Off(eventType, listener)
  \/ /\ Within(MaxListenerOps)
     /\ \E key \in ListenerKeys, env \in SetFailEnvs :
          Set(key, "v1", Absent, Absent, env)
  \/ /\ Within(MaxListenerOps)
     /\ \E key \in ListenerKeys, delOK \in BOOLEAN : Delete(key, delOK)
  \/ /\ Within(MaxListenerOps)
     /\ \E flushOK \in BOOLEAN : Clear(Absent, flushOK)
  \/ /\ Within(MaxListenerOps)
     /\ \E key \in ListenerKeys, env \in GetEnvs :
          Get(key, Absent, Absent, Absent, env)

ListenerSpec == Init /\ [][ListenerNext]_vars

\* The patterns a caller clears with: the empty string, every key, the
\* records of one strategy, all cache records, the index, and no key.
Patterns ==
  { << >>, <<"*">>, <<"scira", "cache", "exact", "*">>, <<"scira", "cache", "*">>,
    <<IndexName, "*">>, <<"other", "*">> }
PatternKeys == { <<"Q">>, <<"r">> }

\* set and get under both strategies, and clear with and without a pattern.
PatternNext ==
  \/ Return
  \/ /\ Within(MaxPatternOps)
     /\ \E key \in PatternKeys, strategyOption \in StrategyOptions :
          Set(key, "v1", strategyOption, Absent, AllWell)
  \/ /\ Within(MaxPatternOps)
     /\ \E key \in PatternKeys : Get(key, Absent, Absent, Absent, AllWell)
  \/ /\ Within(MaxPatternOps)
     /\ \E pattern \in {Absent} \cup { Some(q) : q \in Patterns }, flushOK \in BOOLEAN :
          Clear(pattern, flushOK)

PatternSpec == Init /\ [][PatternNext]_vars

\* Raw keys that differ in case and whitespace only, and one that differs
\* in its letters.
NormalizeKeys ==
  { <<"w", "e", "a", "t", "h", "e", "r", " ", "i", "n", " ", "N", "e", "w", " ", "Y", "o", "r", "k">>,
    <<"w", "e", "a", "t", "h", "e", "r", " ", "i", "n", " ", "n", "e", "w", " ", "y", "o", "r", "k">>,
    <<" ", "W", "E", "A", "T", "H", "E", "R", " ", " ", "i", "n", "	", "N", "e", "w", " ", "Y", "o", "r", "k", " ">>,
    <<"w", "e", "a", "t", "h", "e", "r", " ", "i", "n", " ", "R", "o", "m", "e">>,
    <<"Q">>, <<" ", "q">> }
NormalizeOptions == { Some("weather"), Some("exact") }

NormalizeNext ==
  \/ Return
  \/ /\ Within(MaxNormalizeOps)
     /\ \E key \in NormalizeKeys, strategyOption \in NormalizeOptions :
          Set(key, "v1", strategyOption, Absent, AllWell)
  \/ /\ Within(MaxNormalizeOps)
     /\ \E key \in NormalizeKeys, strategyOption \in NormalizeOptions :
          Get(key, strategyOption, Absent, Absent, AllWell)

NormalizeSpec == Init /\ [][NormalizeNext]_vars

\* The ttl and the threshold a caller may supply, 0 among them.
OptionKeys == { <<"Q">>, <<"r">> }
TtlInputs == { Absent, Some(0), Some(60) }
ThresholdInputs == { Absent, Some(0), Some(50) }

OptionNext ==
  \/ Return
  \/ \E d \in TickSteps : Tick(d)
  \/ /\ Within(MaxOptionOps)
     /\ \E key \in OptionKeys, ttlOption \in TtlInputs :
          Set(key, "v1", Absent, ttlOption, AllWell)
  \/ /\ Within(MaxOptionOps)
     /\ \E key \in OptionKeys, semanticThreshold \in ThresholdInputs :
          Get(key, Absent, Absent, semanticThreshold, AllWell)

OptionSpec == Init /\ [][OptionNext]_vars

\* An index with entries near to and far from a query, searched on both
\* paths.
SearchKeys == { <<"Q">>, <<"r">>, <<"s">>, <<"t">> }

SearchNext ==
  \/ Return
  \/ /\ Within(MaxSearchOps)
     /\ \E key \in SearchKeys : Set(key, "v1", Absent, Absent, AllWell)
  \/ /\ Within(MaxSearchOps)
     /\ \E key \in SearchKeys, env \in GetEnvs :
          Get(key, Absent, Absent, Absent, env)

SearchSpec == Init /\ [][SearchNext]_vars

\* Entries with the same embedding set under two semantic strategies, and
\* the gets that search the index under each.
IsolationKeys == { <<"r">>, <<"s">> }
IsolationOptions == { Absent, Some("academic") }
IsolationEnvs == { AllWell, [AllWell EXCEPT !.nativeOK = FALSE] }

IsolationNext ==
  \/ Return
  \/ /\ Within(MaxIsolationOps)
     /\ \E key \in IsolationKeys, strategyOption \in IsolationOptions :
          Set(key, "v1", strategyOption, Absent, AllWell)
  \/ /\ Within(MaxIsolationOps)
     /\ \E key \in IsolationKeys, strategyOption \in IsolationOptions,
           env \in IsolationEnvs :
          Get(key, strategyOption, Absent, Absent, env)

IsolationSpec == Init /\ [][IsolationNext]_vars

\* Events emitted to listeners that take listeners off as they are called.
DispatchNext ==
  \/ Return
  \/ \E eventType \in EventTypes, listener \in DispatchPool : On(eventType, listener)
  \/ /\ Within(MaxDispatchOps)
     /\ \E type \in EventTypes : EmitEvent(type)

DispatchSpec == Init /\ [][DispatchNext]_vars

\* Calls of the two wrappers, with a cache and a wrapped function that may
\* fail.
WrapperKeys == { <<"Q">>, <<"r">> }
WrapperEnvs == { AllWell, [AllWell EXCEPT !.storeOK = FALSE] }

WrapperNext ==
  \/ Return
  \/ /\ Within(MaxWrapperOps)
     /\ \E key \in WrapperKeys, enableSemantic \in { Some(FALSE), Some(TRUE) },
           env \in WrapperEnvs :
          Get(key, Absent, enableSemantic, Absent, env)
  \/ \E actionOK \in BOOLEAN, env \in WrapperEnvs : withServerActionCache(actionOK, env)
  \/ \E handlerOK \in BOOLEAN, responseOK \in BOOLEAN, env \in WrapperEnvs :
       withApiCache(handlerOK, responseOK, env)

WrapperSpec == Init /\ [][WrapperNext]_vars

\* The operations called with registered and unregistered strategy names.
RegistryNext ==
  \/ Return
  \/ \E d \in TickSteps : Tick(d)
  \/ /\ Within(MaxRegistryOps)
     /\ \E key \in StrategyKeys, strategyOption \in RegistryOptions :
          Set(key, "v1", strategyOption, Absent, AllWell)
  \/ /\ Within(MaxRegistryOps)
     /\ \E key \in StrategyKeys : Delete(key, TRUE)
  \/ /\ Within(MaxRegistryOps)
     /\ \E key \in StrategyKeys, strategyOption \in RegistryOptions :
          Get(key, strategyOption, Absent, Absent, AllWell)

RegistrySpec == RegistryInit /\ [][RegistryNext]_vars

(***************************************************************************)
(* Properties.  last is the operation that has just returned or thrown;    *)
(* written holds, per lookup key, the entry of the last set that stored    *)
(* one and that no delete or clear has removed since.                      *)
(***************************************************************************)
\* An entry is within its TTL on the clock now.
Fresh(entry, now) == now <= entry.timestamp + entry.ttl * MsPerSecond

\* The positions of trace at which one of the items stands.
Positions(trace, items) == { i \in DOMAIN trace : trace[i] \in items }

\* C1: a get that returns, on a key and strategy whose last set stored a
\* value, with no delete or clear since and the TTL not yet elapsed, returns
\* the value that set stored.
RoundTrip ==
  ( /\ last.op = "get"
    /\ last.error = "none"
    /\ last.expect.kind = "entry"
    /\ Fresh(last.expect, clock) )
  => last.result = last.expect.data

\* C2: a get that returns, on a key whose last set has its TTL elapsed on the
\* clock of the get, returns null (and so does every later one until a new
\* set).
ExpiredStaysGone ==
  ( /\ last.op = "get"
    /\ last.error = "none"
    /\ last.expect.kind = "entry"
    /\ ~Fresh(last.expect, clock) )
  => last.result = Null

\* C3: a set the strategy's predicate turns away raises nothing, emits
\* nothing and leaves the store, the index and the counters as they were, so
\* that a get answers after it as it answered before it.
GateIsSilentNoOp ==
  [][ (last'.op = "set" /\ last'.outcome = "skipped")
      => /\ last'.error = "none"
         /\ last'.trace = << >>
         /\ UNCHANGED <<store, idxKeys, idxData, idxVectors, stats>> ]_vars

\* A set has been turned away while its key held an earlier set's entry.
GateWitness ==
  /\ last.op = "set"
  /\ last.outcome = "skipped"
  /\ last.hash \in DOMAIN store
  /\ last.hash \in DOMAIN written

\* C3 as stated: once a set on a key has been turned away, a get on that key
\* which is answered from the exact key returns null.
GateThenNull ==
  ( /\ last.op = "get"
    /\ last.error = "none"
    /\ ~last.consulted
    /\ last.judged.kind # "empty"
    /\ last.hash \in rejected )
  => last.result = Null

\* C4: a semantic search that returns has found exactly the indexed entries,
\* still in the store, whose similarity to the query is at least the
\* threshold, on the native path and on the manual one (so that raising the
\* threshold can only take results away).
ThresholdSelects ==
  ( /\ last.op = "get"
    /\ last.error = "none"
    /\ last.consulted
    /\ last.query # Absent )
  => \A key \in idxKeys :
       ( /\ key \in DOMAIN idxVectors
         /\ key \in DOMAIN store
         /\ key # last.hash )
       => ( cosineSimilarity(last.query[1], idxVectors[key].vector) >= last.threshold
            <=> key \in last.found )

\* C5: a getBatch made while an identical one is in flight reads nothing
\* from the store itself.
BatchDeduplicated ==
  (last.op = "getBatch" /\ last.overlaps) => last.reads = 0

\* C6: hits + misses = totalRequests always, and the hitRate getStats
\* returns is hits / totalRequests (0 when there were no requests), between
\* 0 and 1.
StatsConsistent ==
  /\ stats.hits + stats.misses = stats.totalRequests
  /\ last.op = "getStats"
     => LET rate == last.returned.hitRate
        IN /\ rate.den > 0
           /\ 0 <= rate.num
           /\ rate.num <= rate.den
           /\ IF stats.totalRequests = 0
              THEN rate.num = 0
              ELSE rate.num * stats.totalRequests = stats.hits * rate.den

\* getStats has reported one hit in two requests.
StatsWitness ==
  /\ last.op = "getStats"
  /\ stats.hits = 1
  /\ stats.misses = 1
  /\ last.returned.hitRate = [num |-> 1, den |-> 2]

\* C7: after a clear without a pattern that returns, the store holds no
\* entry, the index holds nothing and every counter is zero.
ClearEmptiesAll ==
  ( /\ last.op = "clear"
    /\ last.pattern = Absent
    /\ last.error = "none" )
  => /\ DOMAIN store = {}
     /\ idxKeys = {}
     /\ DOMAIN idxData = {}
     /\ DOMAIN idxVectors = {}
     /\ stats.hits = 0
     /\ stats.misses = 0
     /\ stats.totalRequests = 0
     /\ stats.hitRate.num = 0
     /\ stats.averageLatency = 0
     /\ stats.storageSize = 0
     /\ stats.evictions = 0

\* A clear has returned that found an entry, an indexed key and a counted
\* request.
ClearWitness ==
  /\ last.op = "clear"
  /\ last.error = "none"
  /\ last.before.entries > 0
  /\ last.before.indexed > 0
  /\ last.before.requests > 0

\* What C8 asks of a get: one more request counted, one hit or miss event,
\* the one of its verdict, after the counters' update and before the
\* strategy's callback, which runs when the strategy has one.
ReportsOnce ==
  LET events == Positions(last.trace, {"event:hit", "event:miss"})
      updates == Positions(last.trace, {"stats:hit", "stats:miss"})
      callbacks == Positions(last.trace, {"callback:onHit", "callback:onMiss"})
      strategy == Strategies[last.strategy]
      hit == last.verdict = "hit"
  IN /\ stats.totalRequests = last.totalBefore + 1
     /\ Cardinality(events) = 1
     /\ Cardinality(updates) = 1
     /\ \A e \in events :
          /\ last.trace[e] = IF hit THEN "event:hit" ELSE "event:miss"
          /\ \A u \in updates : u < e
          /\ \A c \in callbacks : e < c
     /\ \A u \in updates : last.trace[u] = IF hit THEN "stats:hit" ELSE "stats:miss"
     /\ \A c \in callbacks :
          last.trace[c] = IF hit THEN "callback:onHit" ELSE "callback:onMiss"
     /\ Cardinality(callbacks) = IF (IF hit THEN strategy.onHit ELSE strategy.onMiss)
                                 THEN 1 ELSE 0

EmbeddingFailureDegrades ==
  (last.op = "get" /\ last.embFailed) => last.error = "none"

\* C10: a get that found its entry expired returns null and leaves no
\* record under the lookup key of its key and strategy.
ExpiredEntryDeleted ==
  (last.op = "get" /\ last.error = "none" /\ last.expired)
  => /\ last.result = Null
     /\ last.hash \notin DOMAIN store

\* C11: when a get has been served by a semantic match, the record under the
\* get's own lookup key is the matched entry, the one a set stored under the
\* matched key, and the get has returned that entry's value (so that the
\* next get of the key is an exact hit with the same value).
PromotionStoresMatch ==
  ( /\ last.op = "get"
    /\ last.error = "none"
    /\ last.consulted
    /\ last.verdict = "hit" )
  => /\ last.matched # Absent
     /\ last.matched[1] \in DOMAIN written
     /\ last.hash \in DOMAIN store
     /\ store[last.hash].entry = written[last.matched[1]]
     /\ last.result = written[last.matched[1]].data

\* The similarity of an indexed key to the query of the last get.
SimilarityTo(key) == cosineSimilarity(last.query[1], idxVectors[key].vector)

\* What C12 is about: a get that returned and whose search found a match.
Matched ==
  /\ last.op = "get"
  /\ last.error = "none"
  /\ last.consulted
  /\ last.matched # Absent

DeleteReportsRemoval ==
  [][ (last'.op = "delete" /\ last'.error = "none")
      => /\ last'.returned <=> (last'.hash \in DOMAIN store)
         /\ last'.returned
              => /\ last'.hash \notin DOMAIN store'
                 /\ last'.trace = <<"event:delete">>
         /\ ~last'.returned
              => /\ UNCHANGED <<store, idxKeys, idxData, idxVectors>>
                 /\ last'.trace = << >> ]_vars

DeleteWitness ==
  /\ last.op = "delete" /\ last.error = "none"
  /\ last.returned
  /\ last.hash \notin DOMAIN store
  /\ last.trace = <<"event:delete">>

\* C14: delete honours the strategy: after delete(k) has returned, no record
\* of k is left under the lookup key of (k, s), whichever strategy s the
\* entry was written with, so a following get(k, {strategy: s}) returns null.
DeleteHonoursStrategy ==
  (last.op = "delete" /\ last.error = "none")
  => \A strategyOption \in StrategyOptions :
       generateFingerprint(last.key, getStrategy(strategyOption), TRUE).hash
         \notin DOMAIN store

\* The first position of an item in a trace, 0 for none.
FirstOf(trace, item) ==
  IF \E i \in 1..Len(trace) : trace[i] = item
  THEN Min({ i \in 1..Len(trace) : trace[i] = item })
  ELSE 0

\* A get during which a store or matcher operation failed.
GetFailed ==
  /\ last.op = "get"
  /\ last.storeFailed \/ last.matcherFailed \/ last.promoteFailed \/ last.deleteFailed

\* C15: when a store or matcher operation fails during get, the caller gets
\* an error of kind GET_ERROR, and before it does an error event has been
\* emitted and delivered to every listener of error events.
GetFailureReported ==
  GetFailed
  => /\ last.error = "GET_ERROR"
     /\ last.trace[Len(last.trace)] = "throw:GET_ERROR"
     /\ FirstOf(last.trace, "event:error") \in 1..(Len(last.trace) - 1)
     /\ \A i \in 1..Len(eventListeners["error"]) :
          \E j \in 1..Len(delivered.log) :
            delivered.log[j] = [ type |-> "error",
                                 listener |-> eventListeners["error"][i].id ]

GetFailureWitness ==
  /\ GetFailed
  /\ last.matcherFailed
  /\ eventListeners["error"] # << >>

\* A set during which the store write or the indexing failed.
SetFailed == last.op = "set" /\ (last.storeFailed \/ last.indexFailed)

\* C16: when the store write or the semantic indexing fails during set, the
\* caller gets an error of kind SET_ERROR, an error event is emitted before
\* the error reaches the caller, and the call emits no set event.
SetFailureReported ==
  SetFailed
  => /\ last.error = "SET_ERROR"
     /\ last.trace[Len(last.trace)] = "throw:SET_ERROR"
     /\ FirstOf(last.trace, "event:error") \in 1..(Len(last.trace) - 1)
     /\ FirstOf(last.trace, "event:set") = 0
     /\ \A j \in 1..Len(delivered.log) : delivered.log[j].type # "set"

SetFailureWitness ==
  /\ SetFailed
  /\ last.indexFailed
  /\ last.hash \in DOMAIN store
  /\ eventListeners["set"] # << >>

\* C17: when a store operation fails during clear, the caller gets an error
\* of kind CLEAR_ERROR, and an error event is emitted before the error
\* reaches the caller.
ClearFailureReported ==
  (last.op = "clear" /\ last.storeFailed)
  => /\ last.error = "CLEAR_ERROR"
     /\ last.trace[Len(last.trace)] = "throw:CLEAR_ERROR"
     /\ FirstOf(last.trace, "event:error") \in 1..(Len(last.trace) - 1)

\* C18: a get, set or delete whose strategy name (the one given, or the
\* configured default when none is given) is not in the registry fails with
\* the strategy error kind and emits nothing.
UnknownStrategyFails ==
  (last.op \in {"get", "set", "delete"} /\ ~IsRegistered(last.strategy))
  => /\ last.error = StrategyError
     /\ last.trace = <<"throw:STRATEGY_ERROR">>

\* What the listeners of the events of a trace receive when every listener
\* returns normally: each event goes to every listener of its type, in the
\* order of registration.
RECURSIVE AllReceive(_)
AllReceive(trace) ==
  IF trace = << >> THEN << >>
  ELSE LET type == EventOf(Head(trace))
       IN (IF type = "none" THEN << >>
           ELSE [ i \in 1..Len(eventListeners[type]) |->
                    [ type |-> type, listener |-> eventListeners[type][i].id ] ])
          \o AllReceive(Tail(trace))

\* C19: a listener that throws never breaks the operation: nothing a
\* listener throws reaches the operation, and every event the operation
\* emits is delivered to all listeners of its type, those registered after
\* the throwing one included, as if that listener had returned normally.
ListenerThrowContained ==
  (last # NoOp /\ last.op \in {"get", "set", "delete", "clear"})
  => /\ ~delivered.threw
     /\ delivered.log = AllReceive(last.trace)

ListenerThrowWitness ==
  /\ last # NoOp
  /\ last.op = "get"
  /\ last.error = "none"
  /\ \E type \in EventTypes :
       /\ Len(eventListeners[type]) = 2
       /\ eventListeners[type][1].throws
       /\ ~eventListeners[type][2].throws
       /\ delivered.log = << [ type |-> type, listener |-> eventListeners[type][1].id ],
                             [ type |-> type, listener |-> eventListeners[type][2].id ] >>

\* The keys of the results the manual scan returns for the query of a get.
ManualFound(queryEmbedding, threshold) ==
  UNION { { r[i].key : i \in 1..Len(r) } :
          r \in performManualSimilaritySearch(queryEmbedding, threshold) }

\* C20: whenever the native vector search fails, findSimilar runs the manual
\* scan and returns its result; findSimilar raises an error only when the
\* manual scan itself fails.
NativeFailureRecovered ==
  [][ (last'.op = "get" /\ last'.consulted)
      => /\ last'.nativeFailed
              => /\ last'.path = "manual"
                 /\ last'.matcherFailed <=> ManualSearchThrows(last'.query)
                 /\ ~last'.matcherFailed
                      => last'.found = ManualFound(last'.query, last'.threshold)
         /\ last'.matcherFailed
              => last'.nativeFailed /\ ManualSearchThrows(last'.query) ]_vars

NativeFailureWitness ==
  /\ last.op = "get"
  /\ last.consulted
  /\ last.nativeFailed
  /\ last.path = "manual"
  /\ last.error = "none"
  /\ idxKeys # {}

\* The keys of the results the native search returns for a query.
NativeFound(queryEmbedding, threshold) ==
  UNION { { r[i].key : i \in 1..Len(r) } :
          r \in performVectorSearch(queryEmbedding, threshold) }

\* C21: for the same index contents, query vector and threshold, the manual
\* scan and the native search return the same set of lookup hashes.
FallbackEquivalent ==
  \A key \in MatchKeys :
    ManualFound(Some(Embedding(normalizeKey(key))), SemanticThreshold)
      = NativeFound(Some(Embedding(normalizeKey(key))), SemanticThreshold)

\* A clear with a pattern has returned.
PatternCleared(summary) ==
  /\ summary.op = "clear"
  /\ summary.error = "none"
  /\ summary.pattern # Absent
  /\ summary.pattern[1] # << >>

\* C22: clear(pattern) with a pattern deletes every key of the store that
\* matches the pattern and returns their number (0 when none matches); every
\* other key keeps its record, and hits, misses and totalRequests keep
\* their values.
PatternClearsMatching ==
  [][ PatternCleared(last')
      => LET pattern == last'.pattern[1]
         IN /\ DOMAIN store' = { k \in DOMAIN store : ~Match(pattern, k) }
            /\ \A k \in DOMAIN store' : store'[k] = store[k]
            /\ DOMAIN idxData' = { h \in DOMAIN idxData : ~Match(pattern, IndexKey(h)) }
            /\ \A h \in DOMAIN idxData' : idxData'[h] = idxData[h]
            /\ DOMAIN idxVectors'
                 = { h \in DOMAIN idxVectors : ~Match(pattern, VectorKey(h)) }
            /\ \A h \in DOMAIN idxVectors' : idxVectors'[h] = idxVectors[h]
            /\ idxKeys' = IF Match(pattern, MasterKey) THEN {} ELSE idxKeys
            /\ last'.returned
                 = Cardinality({ k \in DOMAIN store : Match(pattern, k) })
                   + Cardinality({ h \in DOMAIN idxData : Match(pattern, IndexKey(h)) })
                   + Cardinality({ h \in DOMAIN idxVectors :
                                    Match(pattern, VectorKey(h)) })
                   + (IF idxKeys # {} /\ Match(pattern, MasterKey) THEN 1 ELSE 0)
            /\ stats'.hits = stats.hits
            /\ stats'.misses = stats.misses
            /\ stats'.totalRequests = stats.totalRequests ]_vars

PatternClearWitness ==
  /\ PatternCleared(last)
  /\ last.returned > 0
  /\ DOMAIN store # {}
  /\ stats.totalRequests > 0

\* The keys a getBatch was called with.
Given == { last.given[i] : i \in 1..Len(last.given) }

SameNormalized ==
  { h \in DOMAIN written :
      /\ written[h].strategy = last.strategy
      /\ normalizeKey(written[h].fingerprint.originalQuery) = normalizeKey(last.key) }

\* C24: two raw keys that normalize to the same string get the same lookup
\* key under a strategy: a get whose key normalizes to the same string as
\* the key of an entry set under that strategy is an exact hit on that
\* entry's lookup key, and returns its value.
NormalizedKeysMeet ==
  (last.op = "get" /\ last.error = "none" /\ SameNormalized # {})
  => /\ SameNormalized = {last.hash}
     /\ last.verdict = "hit"
     /\ ~last.consulted
     /\ last.result = written[last.hash].data

NormalizedWitness ==
  /\ last.op = "get"
  /\ last.error = "none"
  /\ last.strategy = "weather"
  /\ last.key = <<"w", "e", "a", "t", "h", "e", "r", " ", "i", "n", " ", "n", "e", "w", " ", "y", "o", "r", "k">>
  /\ last.verdict = "hit"
  /\ \E h \in SameNormalized :
       written[h].fingerprint.originalQuery = <<"w", "e", "a", "t", "h", "e", "r", " ", "i", "n", " ", "N", "e", "w", " ", "Y", "o", "r", "k">>

\* C25: get consults the similarity matcher only when the exact lookup found
\* no entry, semantic search is not disabled for the call, the strategy is
\* of type semantic and the fingerprint carries an embedding; in every other
\* case the entry get judges is the one the exact lookup read.
MatcherNeedsEmbedding ==
  (last.op = "get" /\ last.error # StrategyError /\ ~last.storeFailed)
  => /\ last.consulted
        => /\ last.enableSemantic # Some(FALSE)
           /\ Strategies[last.strategy].type = "semantic"
           /\ last.query # Absent
     /\ ~last.consulted /\ last.error = "none" /\ last.hash \in DOMAIN written
        => last.judged = written[last.hash]

\* C26: the ttl of an entry written by set, in the entry and as the expiry
\* of its record in the store, is options.ttl whenever the caller supplied
\* one, 0 included, and the strategy's defaultTTL only when it is absent.
TtlAsSupplied ==
  (last.op = "set" /\ last.error = "none" /\ last.outcome = "stored")
  => \E ttl \in { IF last.ttlOption = Absent
                  THEN Strategies[last.strategy].defaultTTL
                  ELSE last.ttlOption[1] } :
        /\ store[last.hash].entry.ttl = ttl
        /\ store[last.hash].expireAt = clock + ttl * MsPerSecond

\* C27: the threshold get passes to the semantic search is
\* options.semanticThreshold whenever the caller supplied one, 0 included,
\* otherwise the strategy's, otherwise 0.85.
ThresholdAsSupplied ==
  (last.op = "get" /\ last.error = "none" /\ last.consulted)
  => last.threshold =
       IF last.semanticThreshold # Absent THEN last.semanticThreshold[1]
       ELSE IF Strategies[last.strategy].semanticThreshold # Absent
       THEN Strategies[last.strategy].semanticThreshold[1]
       ELSE FallbackThreshold

\* C28: promotion does not refresh the ttl: the entry re-stored under the
\* querying key on a semantic hit carries the timestamp and the ttl of the
\* matched entry, so the copy is logically expired exactly when the matched
\* entry is.
PromotionKeepsExpiry ==
  (/\ last.op = "get" /\ last.error = "none"
   /\ last.matched # Absent /\ last.matched[1] \in DOMAIN written)
  => /\ last.hash \in DOMAIN store
     /\ store[last.hash].entry.kind = "entry"
     /\ store[last.hash].entry.timestamp = written[last.matched[1]].timestamp
     /\ store[last.hash].entry.ttl = written[last.matched[1]].ttl
     /\ \A now \in { clock + d * TickMs : d \in 0..MaxTicks } :
          isExpired(store[last.hash].entry, now)
            = isExpired(written[last.matched[1]], now)

\* C29: every list findSimilar returns is in order of non-increasing
\* similarity, holds only results whose similarity is at least the threshold
\* of the search, and gives each result the distance 1 - similarity.
SimilarOrdered ==
  (last.op = "get" /\ last.error # StrategyError /\ last.consulted)
  => /\ \A i, j \in 1..Len(last.results) :
          i < j => last.results[i].similarity >= last.results[j].similarity
     /\ \A i \in 1..Len(last.results) :
          /\ last.results[i].similarity >= last.threshold
          /\ last.results[i].distance = 100 - last.results[i].similarity

SimilarOrderedWitness ==
  /\ last.op = "get"
  /\ last.error = "none"
  /\ last.consulted
  /\ Len(last.results) >= 2
  /\ last.results[1].similarity > last.results[2].similarity
  /\ \E key \in DOMAIN idxVectors :
       cosineSimilarity(last.query[1], idxVectors[key].vector) < last.threshold

\* A set that has written its entry.
Stored(summary) ==
  summary.op = "set" /\ summary.error = "none" /\ summary.outcome = "stored"

\* C30: indexing changes nothing when the fingerprint has no embedding;
\* otherwise the lookup hash is in the master set and the side structure
\* holds the embedding with the entry's hash, timestamp, ttl and strategy.
\* So the hash of an entry set under a semantic strategy with an embedding
\* is among those the fallback scan enumerates.
IndexFollowsEmbedding ==
  [][ Stored(last')
      => \E entry \in { written'[last'.hash] } :
           IF entry.fingerprint.embedding = Absent
           THEN UNCHANGED <<idxKeys, idxData, idxVectors>>
           ELSE /\ last'.hash \in idxKeys'
                /\ last'.hash \in DOMAIN idxVectors'
                /\ idxVectors'[last'.hash].vector = entry.fingerprint.embedding[1]
                /\ \A record \in { idxVectors'[last'.hash].metadata,
                                    idxData'[last'.hash] } :
                     /\ record.hash = last'.hash
                     /\ record.embedding = entry.fingerprint.embedding[1]
                     /\ record.timestamp = entry.timestamp
                     /\ record.ttl = entry.ttl
                     /\ record.strategy = entry.strategy
                /\ \A h \in idxKeys : h \in idxKeys' ]_vars

IndexWitness ==
  /\ Stored(last)
  /\ Strategies[last.strategy].type = "semantic"
  /\ written[last.hash].fingerprint.embedding # Absent
  /\ last.hash \in idxKeys
  /\ \E h \in DOMAIN written :
       /\ written[h].strategy = "semantic"
       /\ written[h].fingerprint.embedding = Absent
       /\ h \notin idxKeys

\* C31: the metrics tick never mutates cache content: it leaves every store
\* entry, the semantic index and the hits, misses and totalRequests counters
\* as they were and changes at most the reported storage size; a tick whose
\* read of the store's telemetry fails changes nothing.
MetricsTickReadsOnly ==
  [][ \A infoOK \in BOOLEAN, usedMemory \in MemorySamples :
        MetricsTick(infoOK, usedMemory)
        => /\ UNCHANGED <<store, idxKeys, idxData, idxVectors>>
           /\ stats' = [stats EXCEPT !.storageSize = stats'.storageSize]
           /\ stats'.hits = stats.hits
           /\ stats'.misses = stats.misses
           /\ stats'.totalRequests = stats.totalRequests
           /\ ~infoOK => UNCHANGED stats ]_vars

MetricsTickWitness ==
  /\ last = NoOp
  /\ stats.storageSize \in MemorySamples
  /\ stats.storageSize # ZeroStats.storageSize
  /\ stats.hits > 0
  /\ DOMAIN store # {}
  /\ idxKeys # {}

\* C32: under any interleaving of concurrent gets, with no clear between
\* them, hits, misses and totalRequests never decrease, and totalRequests
\* grows by one exactly when a get completes without error: once all calls
\* have finished it is the number of gets that completed without error.
CountersFollowGets ==
  [][ /\ stats'.hits >= stats.hits
      /\ stats'.misses >= stats.misses
      /\ stats'.totalRequests >= stats.totalRequests
      /\ stats'.totalRequests - stats.totalRequests
           = IF last'.op = "get" /\ last'.error = "none" THEN 1 ELSE 0 ]_vars

\* Two gets were in flight together and both have finished.
CountersWitness ==
  /\ last.op = "get"
  /\ last.error = "none"
  /\ last.batch # 0
  /\ \A c \in CallSlots : calls[c].pc = "idle"
  /\ stats.totalRequests = 2
  /\ stats.hits = 1
  /\ stats.misses = 1

\* C33: lazy deletion never removes a live entry: when a get that read an
\* expired entry for a key finishes after a set of that key has written a
\* fresh entry, the fresh entry is still the record of the key.
LazyDeleteSparesLive ==
  (/\ last.op = "get" /\ last.error = "none" /\ last.expired
   /\ last.hash \in DOMAIN written
   /\ ~isExpired(written[last.hash], clock))
  => /\ last.hash \in DOMAIN store
     /\ store[last.hash].entry = written[last.hash]

\* C34: on every semantic hit, on either search path, the value get returns
\* and the entry it re-stores under the querying key are the data and the
\* complete entry (data, timestamp, ttl, fingerprint, strategy) that a set
\* stored for the matched key; no hit is reported on an entry that no set
\* has written.
HitIsStoredEntry ==
  (last.op = "get" /\ last.error = "none" /\ last.verdict = "hit")
  => /\ last.judged.kind = "entry"
     /\ \E h \in DOMAIN written : written[h] = last.judged
     /\ last.result = last.judged.data
     /\ last.consulted
        => /\ last.matched # Absent
           /\ last.matched[1] \in DOMAIN written
           /\ last.judged = written[last.matched[1]]
           /\ last.hash \in DOMAIN store
           /\ store[last.hash].entry = last.judged

\* C35: a set that fails with SET_ERROR leaves the cache as it was before
\* the call: the store and the semantic index are unchanged, so that an
\* entry whose store write succeeded and whose indexing failed is not
\* there for a following get.
FailedSetLeavesCache ==
  [][ (last'.op = "set" /\ last'.error = "SET_ERROR")
      => UNCHANGED <<store, idxKeys, idxData, idxVectors>> ]_vars

\* C36: after every operation every hash in the master set of the semantic
\* index has its cache record in the store, so that a semantic search never
\* returns a result for a key whose record is gone.
IndexedHaveRecords ==
  /\ \A h \in idxKeys : h \in DOMAIN store
  /\ (last.op = "get" /\ last.error = "none" /\ last.consulted)
     => \A key \in last.found : key \in DOMAIN store

\* C37: a get under a semantic strategy is only ever served, by exact or by
\* semantic match, with an entry stored under that strategy: an entry
\* indexed under another semantic strategy is never the match, however near
\* its embedding.
HitsStayInStrategy ==
  (last.op = "get" /\ last.error = "none" /\ last.verdict = "hit")
  => /\ last.matched # Absent
        => idxVectors[last.matched[1]].metadata.strategy = last.strategy
     /\ last.judged.kind = "entry" => last.judged.strategy = last.strategy

\* C38: getBatch leaves the caller's sequence of keys as it was: after the
\* call it holds the same keys in the same order as before the call.
BatchKeepsKeys ==
  last.op = "getBatch" => last.keys = last.given

\* C39: every listener registered for a type when an event of the type is
\* emitted is called exactly once for it, in the order of registration, also
\* when a listener calls off for itself or for another one during the
\* dispatch.
DeliveryComplete ==
  last.op = "emit"
  => /\ Len(delivered.log) = Len(last.registered)
     /\ \A i \in 1..Len(last.registered) :
          /\ delivered.log[i].listener = last.registered[i].id
          /\ delivered.log[i].type = last.type

\* C40: the caching wrappers run the wrapped function at most once per
\* call: not at all on a cache hit and exactly once otherwise, also when the
\* cache's get or set fails and when the wrapped function itself throws.
WrappedRunsOnce ==
  last.op \in { "withServerActionCache", "withApiCache" }
  => last.invocations = IF last.hit THEN 0 ELSE 1

====
